---- MODULE Spec2Model ----
(***************************************************************************)
(* Model of modules/data_fetcher.py: fetch_air_quality_data, the call it   *)
(* makes to get_available_cities when no location matched, the call the    *)
(* application makes to get_available_cities, and the OpenAQ v3 server     *)
(* they talk to; of modules/data_processor.py; and of the text functions   *)
(* of the fetcher on their own.  Strings the code inspects character by    *)
(* character (city names, country codes) are sequences of one-character    *)
(* strings; strings the code only copies (parameter names, units,          *)
(* timestamps) are TLA+ strings.  A python dict is a record that has       *)
(* exactly the keys the dict has.                                          *)
(***************************************************************************)
EXTENDS Integers, Sequences, FiniteSets, TLC

VARIABLES
    pc,             \* position of the call: "start", "countries", "scan", "latest",
                    \* "gac_start", "gac_countries", "gac_scan", "gac_probe", "done"
    api_key,        \* the resolved API key ("" when none)
    city,           \* argument city
    country,        \* argument country
    countries_response, \* the answer of the country lookup (line 65), NoResponse before it
    country_id,     \* id found by the country lookup
    page,           \* page of the location scan
    city_locations, \* locations matched so far, in scan order
    li,             \* number of entries of location_ids the latest loop has handled
    all_results,    \* records built so far
    result,         \* return value of fetch_air_quality_data once pc = "done"
    gac,            \* frame of get_available_cities while it runs
    srvLatest,      \* server: the answer of GET /locations/{id}/latest, per id asked so far
    last,           \* history: the last HTTP request issued and its answer
    pagesAsked,     \* history: page numbers of the GET /locations requests issued so far,
                    \* kept until the call reaches a stage that issues no such request
    latestReqs,     \* history: ids asked by the latest loop of fetch_air_quality_data
    dir401,         \* history: a /countries or /locations request of the call answered 401
    afterDir401,    \* history: a request was issued after that answer
    probed,         \* history: the location ids get_available_cities has probed, forgotten
                    \* when the call returns to fetch_air_quality_data
    pageMatches,    \* history: the records of the pages answered so far that carry a variant
                    \* of the requested city, in the order the pages gave them
    ppc,            \* data_processor: position of its caller: "idle", "input", "table",
                    \* "latest", "pivoted"
    data,           \* argument of process_data
    df,             \* the table: result of process_data, argument of the two other functions
    measurements,   \* result of get_latest_measurements
    pivot_df,       \* result of pivot_data_by_parameter
    tpc,            \* text functions: position of their caller: "idle", "text", "normalized",
                    \* "twice", "city", "matched"
    raw_text,       \* argument of normalize_text
    normalized,     \* normalize_text(raw_text)
    renormalized,   \* normalize_text(normalize_text(raw_text))
    requested,      \* the requested city whose variants are matched against scanned
    scanned,        \* a location record of a page
    requested_variants, \* the list city_variants of line 153 for requested, as a set
    loc_found       \* the flag found of lines 199-205 for scanned

prog == <<pc, api_key, city, country, countries_response, country_id, page, city_locations, li, all_results,
          result, gac>>
hist == <<last, pagesAsked, latestReqs, dir401, afterDir401, probed, pageMatches>>
proc == <<ppc, data, df, measurements, pivot_df>>
txt == <<tpc, raw_text, normalized, renormalized, requested, scanned, requested_variants,
         loc_found>>
vars == <<prog, srvLatest, hist, proc, txt>>

----------------------------------------------------------------------------
(* Bounds of the model *)

\* explicit (named) location records on one page of the directory
MaxPageLocs == 2
\* pages get_available_cities may scan before the model stops following it
MaxGacPages == 2
\* records of a list handed to process_data
MaxRecords == 3
\* characters of a string handed to normalize_text on its own
MaxTextLen == 2

(* Program constants *)

max_pages == 30
limit_per_page == 100
MaxLatestLocations == 5
GacMaxCities == 10
max_to_check == 15

----------------------------------------------------------------------------
(* Python values *)

\* None in a position that otherwise holds a TLA+ string
None == "None"
\* None in a position that otherwise holds an integer
NoneId == 0 - 1
DefaultUnit == "μg/m³"

Get(d, k, default) == IF k \in DOMAIN d THEN d[k] ELSE default
Truthy(d, k) == k \in DOMAIN d /\ d[k] # <<>>

Min(a, b) == IF a <= b THEN a ELSE b

\* the letters: a-z and the eighteen accented letters of replacements (lines 114-121)
UpperAlphabet ==
    <<"A","B","C","D","E","F","G","H","I","J","K","L","M","N","O","P","Q","R","S","T","U","V",
       "W","X","Y","Z","Ã","Á","Â","À","É","Ê","È","Í","Î","Ì","Ó","Ô","Ò","Ú","Û","Ù","Ç","Ñ">>
LowerAlphabet ==
    <<"a","b","c","d","e","f","g","h","i","j","k","l","m","n","o","p","q","r","s","t","u","v",
       "w","x","y","z","ã","á","â","à","é","ê","è","í","î","ì","ó","ô","ò","ú","û","ù","ç","ñ">>

\* str.lower() and str.upper(), on the letters the model uses
LowerChar(c) ==
    IF \E i \in 1..Len(UpperAlphabet) : UpperAlphabet[i] = c
    THEN LowerAlphabet[CHOOSE i \in 1..Len(UpperAlphabet) : UpperAlphabet[i] = c]
    ELSE c
UpperChar(c) ==
    IF \E i \in 1..Len(LowerAlphabet) : LowerAlphabet[i] = c
    THEN UpperAlphabet[CHOOSE i \in 1..Len(LowerAlphabet) : LowerAlphabet[i] = c]
    ELSE c
Lower(s) == [i \in 1..Len(s) |-> LowerChar(s[i])]
Upper(s) == [i \in 1..Len(s) |-> UpperChar(s[i])]

\* str.replace(old, new) for one-character old and new
Replace(s, old, new) == [i \in 1..Len(s) |-> IF s[i] = old THEN new ELSE s[i]]

\* sub in s
Contains(sub, s) ==
    \E i \in 0..(Len(s) - Len(sub)) : SubSeq(s, i + 1, i + Len(sub)) = sub

RECURSIVE ReplaceAll(_, _)
ReplaceAll(s, pairs) ==
    IF pairs = <<>> THEN s
    ELSE ReplaceAll(Replace(s, pairs[1][1], pairs[1][2]), Tail(pairs))

Range(s) == {s[i] : i \in 1..Len(s)}

----------------------------------------------------------------------------
(* Text normalisation and the variant set *)

\* lines 98-105: the requested city, lower-cased and without the ten accents listed there
CityReplacements ==
    << <<"ã","a">>, <<"á","a">>, <<"â","a">>, <<"é","e">>, <<"ê","e">>,
       <<"í","i">>, <<"ó","o">>, <<"ô","o">>, <<"ú","u">>, <<"ç","c">> >>
city_normalized(c) == ReplaceAll(Lower(c), CityReplacements)

\* faulty variant: the last pair maps to a letter an earlier pair replaces
replacements_chained ==
    << <<"ã","a">>, <<"á","a">>, <<"â","a">>, <<"à","a">>,
       <<"é","e">>, <<"ê","e">>, <<"è","e">>,
       <<"í","i">>, <<"î","i">>, <<"ì","i">>,
       <<"ó","o">>, <<"ô","o">>, <<"ò","o">>,
       <<"ú","u">>, <<"û","u">>, <<"ù","u">>,
       <<"ç","c">>, <<"ñ","ã">> >>

\* lines 108-124
replacements ==
    << <<"ã","a">>, <<"á","a">>, <<"â","a">>, <<"à","a">>,
       <<"é","e">>, <<"ê","e">>, <<"è","e">>,
       <<"í","i">>, <<"î","i">>, <<"ì","i">>,
       <<"ó","o">>, <<"ô","o">>, <<"ò","o">>,
       <<"ú","u">>, <<"û","u">>, <<"ù","u">>,
       <<"ç","c">>, <<"ñ","n">> >>
normalize_text(text) ==
    IF text = <<>> THEN <<>> ELSE ReplaceAll(Lower(text), replacements)

\* lines 135-146: the alias lists, in the order of the dict's keys
city_variants_map ==
  <<
    \* 'belo horizonte'
    << <<"b","e","l","o"," ","h","o","r","i","z","o","n","t","e">>,
       <<"b","h">>,
       <<"b","e","l","o","-","h","o","r","i","z","o","n","t","e">> >>,
    \* 'brasilia'
    << <<"b","r","a","s","i","l","i","a">>,
       <<"b","r","a","s","í","l","i","a">>,
       <<"b","r","a","s","i","l">>,
       <<"d","f">> >>,
    \* 'curitiba'
    << <<"c","u","r","i","t","i","b","a">>,
       <<"c","u","r","i","t","i","b","a","-","p","r">> >>,
    \* 'porto alegre'
    << <<"p","o","r","t","o"," ","a","l","e","g","r","e">>,
       <<"p","o","r","t","o","-","a","l","e","g","r","e">>,
       <<"p","o","a">> >>,
    \* 'fortaleza'
    << <<"f","o","r","t","a","l","e","z","a">>,
       <<"f","o","r","t","a","l","e","z","a","-","c","e">> >>,
    \* 'salvador'
    << <<"s","a","l","v","a","d","o","r">>,
       <<"s","a","l","v","a","d","o","r","-","b","a">> >>,
    \* 'recife'
    << <<"r","e","c","i","f","e">>,
       <<"r","e","c","i","f","e","-","p","e">> >>,
    \* 'manaus'
    << <<"m","a","n","a","u","s">>,
       <<"m","a","n","a","u","s","-","a","m">> >>,
    \* 'sao paulo'
    << <<"s","a","o"," ","p","a","u","l","o">>,
       <<"s","ã","o"," ","p","a","u","l","o">>,
       <<"s","p">>,
       <<"s","a","o","-","p","a","u","l","o">> >>,
    \* 'rio de janeiro'
    << <<"r","i","o"," ","d","e"," ","j","a","n","e","i","r","o">>,
       <<"r","i","o">>,
       <<"r","j">>,
       <<"r","i","o","-","d","e","-","j","a","n","e","i","r","o">> >>
  >>

\* faulty variant: lines 149-151 left out, the aliases are never added
city_variants_self(c) == {city_normalized(c)}

\* lines 134, 149-153: the set of variants of the requested city
city_variants(c) ==
    LET cn == city_normalized(c)
        hit(variants) == \/ cn \in Range(variants)
                         \/ \E v \in Range(variants) : Contains(v, cn)
    IN  {cn} \cup UNION {Range(city_variants_map[k]) :
                           k \in {j \in 1..Len(city_variants_map) : hit(city_variants_map[j])}}

\* lines 193-205: does the location match some variant
\* faulty variant: the provider name is not looked at
LocMatches_no_provider(c, loc) ==
    LET loc_name == normalize_text(Get(loc, "name", <<>>))
        loc_locality == normalize_text(Get(loc, "locality", <<>>))
    IN  \E variant \in city_variants(c) :
            \/ Contains(variant, loc_name)
            \/ Contains(variant, loc_locality)

LocMatches(c, loc) ==
    LET loc_name == normalize_text(Get(loc, "name", <<>>))
        loc_locality == normalize_text(Get(loc, "locality", <<>>))
        provider == Get(loc, "provider", [x \in {} |-> <<>>])
        provider_name == normalize_text(Get(provider, "name", <<>>))
    IN  \E variant \in city_variants(c) :
            \/ Contains(variant, loc_name)
            \/ Contains(variant, loc_locality)
            \/ Contains(variant, provider_name)

----------------------------------------------------------------------------
(* The server's data: what the three endpoints may answer *)

\* records of GET /countries
CountryBR == [code |-> <<"B","R">>, id |-> 45]
CountryBRLower == [code |-> <<"b","r">>, id |-> 45]
CountryAR == [code |-> <<"A","R">>, id |-> 7]
CountryBRNoId == [code |-> <<"B","R">>]
\* a record whose code is null: c.get('code', '').upper() raises AttributeError
CountryNullCode == [codeIsNull |-> TRUE, id |-> 3]
CountryBodies ==
    { <<>>, <<CountryBR>>, <<CountryAR, CountryBRLower>>, <<CountryAR>>,
      <<CountryBRNoId>>, <<CountryNullCode, CountryBR>> }

\* records of GET /locations
LocSaoPaulo ==
    [id |-> 123,
     name |-> <<"S","ã","o"," ","P","a","u","l","o">>,
     locality |-> <<"S","ã","o"," ","P","a","u","l","o">>,
     country |-> [code |-> <<"B","R">>],
     sensors |-> << [id |-> 1, parameter |-> [name |-> "pm25", units |-> "μg/m³"]],
                    [id |-> 2, parameter |-> [name |-> "o3", units |-> "ppm"]] >>]
LocPinheiros ==
    [id |-> 124,
     name |-> <<"E","s","t","a","ç","ã","o"," ","P","i","n","h","e","i","r","o","s">>,
     provider |-> [name |-> <<"C","E","T","E","S","B"," ","S","P">>],
     sensors |-> << [id |-> 3, parameter |-> [units |-> None]] >>]
LocCampinas ==
    [id |-> 125,
     name |-> <<"C","a","m","p","i","n","a","s">>,
     locality |-> <<"C","a","m","p","i","n","a","s">>]
LocationPool == {LocSaoPaulo, LocPinheiros, LocCampinas}
\* a record that has a provider only: no name, no locality, no sensors
LocCetesb == [id |-> 126, provider |-> [name |-> <<"C","E","T","E","S","B"," ","S","P">>]]

\* the sequences of at most n different elements of S
RECURSIVE SeqsUpTo(_, _)
SeqsUpTo(S, n) ==
    IF n = 0 THEN {<<>>}
    ELSE LET shorter == SeqsUpTo(S, n - 1)
         IN  shorter \cup UNION {{Append(q, x) : x \in S \ Range(q)} :
                                    q \in {t \in shorter : Len(t) = n - 1}}

FoundValues == {0, 250, 3100}
ExceptionKinds == {"Timeout", "ConnectionError"}

\* a page on which five records match 'São Paulo'
BulkPage == <<LocSaoPaulo, LocCetesb, LocSaoPaulo, LocCetesb, LocSaoPaulo>>
\* the records a page can hold
PageRecords == LocationPool \cup {LocCetesb}

\* answers of GET /locations?page=p: a status, or a page of the records `locs` (up to
\* MaxPageLocs records, each listed once, or the bulk page) followed by `pad` blank
\* records (a page is empty, short or of limit_per_page records), and meta.found
PageResponses ==
    {[status |-> st, exc |-> "", locs |-> <<>>, pad |-> 0, found |-> 0] : st \in {401, 404, 500}}
    \cup {[status |-> 0, exc |-> k, locs |-> <<>>, pad |-> 0, found |-> 0] : k \in ExceptionKinds}
    \cup {[status |-> 200, exc |-> "", locs |-> ls, pad |-> pd, found |-> f] :
            ls \in SeqsUpTo(LocationPool, MaxPageLocs),
            pd \in {0, limit_per_page},
            f \in FoundValues}
\* the directory may begin with the page of five matching records
BulkResponses ==
    {[status |-> 200, exc |-> "", locs |-> BulkPage, pad |-> pd, found |-> f] :
        pd \in {0, limit_per_page}, f \in FoundValues}
\* what the server may answer to the request for page p of the directory
ScanResponses(p) == PageResponses \cup (IF p = 1 THEN BulkResponses ELSE {})

\* len(locations) of a page
PageLen(r) == Len(r.locs) + (IF r.pad = 0 THEN 0 ELSE r.pad - Len(r.locs))

\* readings of GET /locations/{id}/latest
Reading1 == [value |-> 15, datetime |-> [utc |-> "2024-01-01T12:00:00Z"], sensorsId |-> 1]
Reading2 == [value |-> 40, datetime |-> [utc |-> "2024-01-01T12:30:00Z"], sensorsId |-> 2]
Reading3 == [value |-> 7, datetime |-> [utc |-> "2024-01-01T13:00:00Z"], sensorsId |-> 3]
Reading9 == [sensorsId |-> 9]
\* an entry of results that is not an object: result.get raises AttributeError
ReadingBad == [notADict |-> TRUE]
LatestBodies ==
    { <<>>, <<Reading2, Reading3>>, <<Reading1, Reading9, ReadingBad, Reading2>> }
LatestResponses ==
    {[status |-> st, exc |-> "", results |-> <<>>] : st \in {401, 404, 429, 500}}
    \cup {[status |-> 0, exc |-> k, results |-> <<>>] : k \in ExceptionKinds}
    \cup {[status |-> 200, exc |-> "", results |-> b] : b \in LatestBodies}

Cities == { <<"S","ã","o"," ","P","a","u","l","o">>, <<"C","E","P">> }
CountryArgs == { <<"B","R">>, <<"b","r">> }

----------------------------------------------------------------------------
(* fetch_air_quality_data *)

ResultNone == [isNone |-> TRUE, records |-> <<>>]
ResultList(records) == [isNone |-> FALSE, records |-> records]

\* the frame of get_available_cities.  all_locations is read only by the loop of lines
\* 535-554, which the model runs on each page as it arrives: the frame keeps cities_dict
\* and len(all_locations)
\* caller: "" for the call of line 242, "app" for the call of app.py line 97
NoGac == [caller |-> "", country_id |-> NoneId, page |-> 0, cities_dict |-> <<>>,
          n_locations |-> 0, cities_to_check |-> <<>>, ci |-> 0, checked_count |-> 0,
          cities_with_data |-> <<>>]

NoRequest == [kind |-> "", arg |-> 0, status |-> 0, exc |-> "", full |-> FALSE, found |-> 0]
NoResponse == [status |-> 0, exc |-> "", results |-> <<>>]
\* a request and what its answer r was: status or exception
Request(kind, arg, r) ==
    [kind |-> kind, arg |-> arg, status |-> r.status, exc |-> r.exc, full |-> FALSE,
     found |-> 0]
\* a request of fetch_air_quality_data's scan for a page of the directory: also whether
\* len(locations) was limit_per_page, and meta.found of the answer (lines 179-182)
PageRequest(arg, r) ==
    [Request("locations", arg, r) EXCEPT !.full = (PageLen(r) = limit_per_page),
                                         !.found = r.found]

FetcherInit ==
    /\ pc = "start"
    /\ api_key = ""
    /\ city = <<>>
    /\ country = <<>>
    /\ countries_response = NoResponse
    /\ country_id = NoneId
    /\ page = 1
    /\ city_locations = <<>>
    /\ li = 0
    /\ all_results = <<>>
    /\ result = ResultNone
    /\ gac = NoGac
    /\ srvLatest = [x \in {} |-> 0]
    /\ last = NoRequest
    /\ pagesAsked = <<>>
    /\ latestReqs = <<>>
    /\ dir401 = FALSE
    /\ afterDir401 = FALSE
    /\ probed = <<>>
    /\ pageMatches = <<>>

\* return of fetch_air_quality_data
Return(value) ==
    /\ pc' = "done"
    /\ result' = value

\* a request of fetch_air_quality_data's own directory stage and its answer r
DirRequest(kind, arg, r) ==
    /\ last' = IF kind = "locations" THEN PageRequest(arg, r) ELSE Request(kind, arg, r)
    /\ dir401' = (dir401 \/ r.status = 401)
    /\ afterDir401' = (afterDir401 \/ dir401)

\* any other request and its answer r
OtherRequest(kind, arg, r) ==
    /\ last' = Request(kind, arg, r)
    /\ afterDir401' = (afterDir401 \/ dir401)
    /\ UNCHANGED dir401

\* lines 34-53: the call, with its arguments and the environment's OPENAQ_API_KEY
Start ==
    /\ pc = "start"
    /\ UNCHANGED <<proc, txt>>
    /\ \E c \in Cities, co \in CountryArgs, key \in {"", "k"}, env \in {"", "k"} :
        LET k == IF key # "" THEN key ELSE env
        IN  /\ city' = c
            /\ country' = co
            /\ api_key' = k
            /\ IF k = "" THEN Return(ResultNone)
               ELSE pc' = "countries" /\ UNCHANGED result
    /\ UNCHANGED <<countries_response, country_id, page, city_locations, li, all_results, gac,
                   srvLatest, hist>>

CountryResponses ==
    {[status |-> st, exc |-> "", results |-> <<>>] : st \in {401, 404, 500}}
    \cup {[status |-> 0, exc |-> k, results |-> <<>>] : k \in ExceptionKinds}
    \cup {[status |-> 200, exc |-> "", results |-> b] : b \in CountryBodies}

\* lines 82-86: the id of the first record whose code is the wanted one, NoneId when there is
\* none or the record has no id; raised when a null code is met before
RECURSIVE FindCountry(_, _)
FindCountry(countries, wanted) ==
    IF countries = <<>> THEN [raised |-> FALSE, id |-> NoneId]
    ELSE LET c == countries[1]
         IN  IF "codeIsNull" \in DOMAIN c THEN [raised |-> TRUE, id |-> NoneId]
             ELSE IF Upper(Get(c, "code", <<>>)) = Upper(wanted)
                  THEN [raised |-> FALSE, id |-> Get(c, "id", NoneId)]
                  ELSE FindCountry(Tail(countries), wanted)

\* faulty variant: the test of line 88 left out
Falsy_never(id) == id # id

\* not country_id
Falsy(id) == id = NoneId \/ id = 0

\* lines 72-90: does the country lookup fail on answer r
CountryLookupFails(r, wanted) ==
    \/ r.exc # ""
    \/ r.status # 200
    \/ FindCountry(r.results, wanted).raised
    \/ Falsy(FindCountry(r.results, wanted).id)

\* lines 60-92: GET /countries and the search for the country's id
GetCountries ==
    /\ pc = "countries"
    /\ UNCHANGED <<proc, txt>>
    /\ \E r \in CountryResponses :
        /\ DirRequest("countries", 0, r)
        /\ countries_response' = r
        /\ IF CountryLookupFails(r, country)
           THEN Return(ResultNone) /\ UNCHANGED country_id
           ELSE /\ country_id' = FindCountry(r.results, country).id
                /\ pc' = "scan"
                /\ UNCHANGED result
    /\ UNCHANGED <<api_key, city, country, page, city_locations, li, all_results, gac,
                   srvLatest, pagesAsked, latestReqs, probed, pageMatches>>

\* the fields the scan looks at, an absent or null field read as the empty string
ScannedFields(loc) ==
    LET provider == IF "provider" \in DOMAIN loc THEN loc.provider ELSE [x \in {} |-> <<>>]
    IN  {IF k \in DOMAIN d THEN normalize_text(d[k]) ELSE <<>> :
            <<d, k>> \in {<<loc, "name">>, <<loc, "locality">>, <<provider, "name">>}}

\* the records of the pool that carry a variant of city c in one of these fields
CarrierSet ==
    [c \in Cities |-> {loc \in PageRecords :
                          \E v \in city_variants(c), f \in ScannedFields(loc) : Contains(v, f)}]

Carriers(locs, c) == SelectSeq(locs, LAMBDA loc : loc \in CarrierSet[c])

\* LocMatches on the cities and locations of the model, computed once
MatchingLocations == [c \in Cities |-> {loc \in PageRecords : LocMatches(c, loc)}]

\* lines 192-208: the locations of the page that match, in page order
RECURSIVE Filter(_, _)
Filter(locs, c) ==
    IF locs = <<>> THEN <<>>
    ELSE (IF locs[1] \in MatchingLocations[c] THEN <<locs[1]>> ELSE <<>>)
         \o Filter(Tail(locs), c)

\* line 211
total_pages(total_found) ==
    IF total_found > 0 THEN (total_found + limit_per_page - 1) \div limit_per_page ELSE 1

\* faulty variant: lines 215-218 left out, five matches do not end the scan
ScanBreaks_no_early(matched, nlocations, p, total_found) ==
    nlocations < limit_per_page \/ p >= total_pages(total_found)

\* faulty variant: the scan gives up after page 5 when nothing has matched
ScanBreaks_five_pages(matched, nlocations, p, total_found) ==
    IF Len(matched) >= 5
    THEN p >= Min(3, total_pages(total_found))
    ELSE \/ nlocations < limit_per_page
         \/ p >= total_pages(total_found)
         \/ matched = <<>> /\ p >= 5

\* lines 215-221: does the loop stop after this page
ScanBreaks(matched, nlocations, p, total_found) ==
    IF Len(matched) >= 5
    THEN p >= Min(3, total_pages(total_found))
    ELSE nlocations < limit_per_page \/ p >= total_pages(total_found)

\* faulty variant: line 254 without the slice [:5]
location_ids_unsliced(matched) == [i \in 1..Len(matched) |-> matched[i].id]

\* line 254
location_ids(matched) ==
    [i \in 1..Min(MaxLatestLocations, Len(matched)) |-> matched[i].id]

\* lines 237-256: after the loop, with p the value of page.  With no match the call goes
\* on to get_available_cities(country, api_key); otherwise to the latest loop, which asks
\* for no page: page is not read any more (lines 235 and 239 log it) and the model
\* forgets it, together with the history of the pages asked.
AfterScan(matched, p, asked) ==
    IF matched = <<>>
    THEN /\ pc' = "gac_countries"
         /\ page' = p
         /\ pagesAsked' = asked
         /\ UNCHANGED result
    ELSE /\ pc' = "latest"
         /\ page' = 0
         /\ pagesAsked' = <<>>
         /\ UNCHANGED result

\* lines 157-233: one iteration of the page loop
ScanPage ==
    /\ pc = "scan"
    /\ UNCHANGED <<proc, txt>>
    /\ page <= max_pages
    /\ \E r \in ScanResponses(page) :
        LET asked == Append(pagesAsked, page)
        IN  /\ DirRequest("locations", page, r)
            /\ UNCHANGED probed
            /\ pageMatches' = IF r.exc = "" /\ r.status = 200
                              THEN pageMatches \o Carriers(r.locs, city)
                              ELSE pageMatches
            /\ IF r.exc # ""
               THEN /\ Return(ResultNone)
                    /\ pagesAsked' = asked
                    /\ UNCHANGED <<page, city_locations>>
               ELSE IF r.status # 200 \/ PageLen(r) = 0
               THEN /\ AfterScan(city_locations, page, asked)
                    /\ UNCHANGED city_locations
               ELSE LET matched == city_locations \o Filter(r.locs, city)
                    IN  /\ city_locations' = matched
                        /\ IF ScanBreaks(matched, PageLen(r), page, r.found)
                           THEN AfterScan(matched, page, asked)
                           ELSE IF page + 1 <= max_pages
                           THEN /\ page' = page + 1
                                /\ pagesAsked' = asked
                                /\ UNCHANGED <<pc, result>>
                           ELSE AfterScan(matched, page + 1, asked)
    /\ UNCHANGED <<api_key, city, country, countries_response, country_id, li, all_results,
                   gac, srvLatest, latestReqs>>

\* faulty variant: lines 289-294 without the comparison of the ids
SensorLookup_first(sensors, sensor_id) ==
    IF sensors = <<>> THEN [parameter_name |-> None, parameter_unit |-> DefaultUnit]
    ELSE LET param == Get(sensors[1], "parameter", [x \in {} |-> ""])
         IN  [parameter_name |-> Get(param, "name", ""),
              parameter_unit |-> Get(param, "units", DefaultUnit)]

\* lines 288-294: name and unit of the first sensor with the reading's sensorsId
RECURSIVE SensorLookup(_, _)
SensorLookup(sensors, sensor_id) ==
    IF sensors = <<>> THEN [parameter_name |-> None, parameter_unit |-> DefaultUnit]
    ELSE IF Get(sensors[1], "id", NoneId) = sensor_id
         THEN LET param == Get(sensors[1], "parameter", [x \in {} |-> ""])
              IN  [parameter_name |-> Get(param, "name", ""),
                   parameter_unit |-> Get(param, "units", DefaultUnit)]
         ELSE SensorLookup(Tail(sensors), sensor_id)

\* faulty variant: a name that was not found is left as it is
ParameterName_as_found(found_name) == found_name

\* lines 297-299
ParameterName(found_name) == IF found_name \in {None, ""} THEN "unknown" ELSE found_name

\* lines 278-315: the record of one reading
formatted_result(reading, location_info, location_id, c, co) ==
    LET date_obj == Get(reading, "datetime", [x \in {} |-> ""])
        sensor_id == Get(reading, "sensorsId", NoneId)
        found == SensorLookup(Get(location_info, "sensors", <<>>), sensor_id)
        location_city == IF Truthy(location_info, "locality") THEN location_info.locality
                         ELSE IF Truthy(location_info, "name") THEN location_info.name
                         ELSE c
    IN  [parameter |-> ParameterName(found.parameter_name),
         value |-> Get(reading, "value", 0),
         unit |-> found.parameter_unit,
         date |-> [utc |-> Get(date_obj, "utc", "")],
         location |-> Get(location_info, "name", <<>>),
         locationId |-> location_id,
         city |-> location_city,
         country |-> IF "country" \in DOMAIN location_info
                     THEN Get(location_info.country, "code", co) ELSE co]

\* lines 277-316: the records appended for a 200 answer, up to the first entry of results
\* that raises
RECURSIVE Records(_, _, _, _, _)
Records(results, location_info, location_id, c, co) ==
    IF results = <<>> \/ "notADict" \in DOMAIN results[1] THEN <<>>
    ELSE <<formatted_result(results[1], location_info, location_id, c, co)>>
         \o Records(Tail(results), location_info, location_id, c, co)

\* line 274: the first matched location with the id
location_info_of(matched, location_id) ==
    matched[CHOOSE i \in 1..Len(matched) :
              /\ matched[i].id = location_id
              /\ \A j \in 1..(i - 1) : matched[j].id # location_id]

\* the server's answer for a location.  Within one call the server of the model answers
\* the requests for one location alike: the answer it gave before, or any when the
\* location is asked for the first time
LatestAnswers(location_id) ==
    IF location_id \in DOMAIN srvLatest THEN {srvLatest[location_id]} ELSE LatestResponses

\* faulty variant: 429 handled by the else branch of line 326
IsFatal_401(r) == r.exc = "" /\ r.status = 401
\* faulty variant: every status but 200 returns None
IsFatal_non200(r) == r.exc = "" /\ r.status # 200
\* faulty variant: the except of line 329 re-raises, and the handlers of lines 340-351 return None
IsFatal_raise(r) == r.exc # "" \/ r.status \in {401, 429}

\* lines 320-325: answers that end the whole call
IsFatal(r) == r.exc = "" /\ r.status \in {401, 429}

\* lines 269-316: what one answer adds to all_results
NewRecords(r, matched, location_id, c, co) ==
    IF r.exc = "" /\ r.status = 200
    THEN Records(r.results, location_info_of(matched, location_id), location_id, c, co)
    ELSE <<>>

\* lines 333-338
FinalResult(all) == IF all = <<>> THEN ResultNone ELSE ResultList(all)

\* lines 258-338: one iteration of the loop over location_ids, and the return after the last
LatestStep ==
    /\ pc = "latest"
    /\ UNCHANGED <<proc, txt>>
    /\ li < Len(location_ids(city_locations))
    /\ LET location_id == location_ids(city_locations)[li + 1]
       IN  \E r \in LatestAnswers(location_id) :
            /\ srvLatest' = (location_id :> r) @@ srvLatest
            /\ OtherRequest("latest", location_id, r)
            /\ latestReqs' = Append(latestReqs, location_id)
            /\ IF IsFatal(r)
               THEN /\ Return(ResultNone)
                    /\ UNCHANGED <<li, all_results>>
               ELSE LET all == all_results
                               \o NewRecords(r, city_locations, location_id, city, country)
                    IN  /\ all_results' = all
                        /\ li' = li + 1
                        /\ IF li + 1 < Len(location_ids(city_locations))
                           THEN UNCHANGED <<pc, result>>
                           ELSE Return(FinalResult(all))
    /\ UNCHANGED <<api_key, city, country, countries_response, country_id, page,
                   city_locations, gac, pagesAsked, probed, pageMatches>>

----------------------------------------------------------------------------
(* get_available_cities, as called at line 242 *)

Digits == {"0","1","2","3","4","5","6","7","8","9"}

\* str.strip()
RECURSIVE LStrip(_)
LStrip(s) == IF s # <<>> /\ s[1] = " " THEN LStrip(Tail(s)) ELSE s
RECURSIVE RStrip(_)
RStrip(s) == IF s # <<>> /\ s[Len(s)] = " " THEN RStrip(SubSeq(s, 1, Len(s) - 1)) ELSE s
Strip(s) == RStrip(LStrip(s))

\* str.isdigit()
IsDigit(s) == s # <<>> /\ \A i \in 1..Len(s) : s[i] \in Digits

\* str.count('_')
Count(s, ch) == Cardinality({i \in 1..Len(s) : s[i] = ch})

\* the characters of s other than ch, in order
RECURSIVE Without(_, _)
Without(s, ch) ==
    IF s = <<>> THEN <<>>
    ELSE (IF s[1] = ch THEN <<>> ELSE <<s[1]>>) \o Without(Tail(s), ch)

\* lines 456-462
invalid_patterns ==
    << <<"t","e","s","t","e">>,
       <<"t","e","s","t">>,
       <<"n","/","a">>,
       <<"n","a">>,
       <<"n","o","n","e">>,
       <<"n","u","l","l">>,
       <<"u","n","k","n","o","w","n">>,
       <<"2","1","1","0","0","4">>,
       <<"m","o","d","o","_","f","i","x","o">>,
       <<"m","o","d","o"," ","f","i","x","o">>,
       <<"t","i","r","a","d","e","n","t","e","s"," ","2",".","0">>,
       <<"s","e","m"," ","n","o","m","e">>,
       <<"i","n","d","e","f","i","n","i","d","o">>,
       <<"u","n","d","e","f","i","n","e","d">>,
       <<"c","i","d","a","d","e"," ","t","i","r","a","d","e","n","t","e","s">>,
       <<"g","r","a","j","a","ú","-","p","a","r","e","l","h","e","i","r","o","s">>,
       <<"q","u","a","l","i","t","y","0","1">>,
       <<"q","u","a","l","i","t","y">>,
       <<"q","u","a","l","i","t","y","0">>,
       <<"c","i","d",".">>,
       <<"c","i","d"," ">>,
       <<"u","s","p">>,
       <<"i","p","e","n">> >>

\* lines 448-489
is_valid_city_name(city_name) ==
    LET city_lower == Strip(Lower(city_name))
    IN  /\ city_name # <<>>
        /\ Strip(city_name) # <<>>
        /\ ~ (/\ \E i \in 1..Min(3, Len(city_lower)) : city_lower[i] \in Digits
              /\ Len(city_lower) < 10)
        /\ \A k \in 1..Len(invalid_patterns) : ~ Contains(invalid_patterns[k], city_lower)
        /\ Len(city_lower) >= 3
        /\ ~ IsDigit(Without(Without(Without(city_lower, " "), "-"), "_"))
        /\ ~ (city_lower[1] \in Digits /\ Contains(<<"_">>, city_lower))
        /\ Count(city_lower, "_") <= 1

\* lines 493-503
priority_cities ==
    << <<"s","ã","o"," ","p","a","u","l","o">>,
       <<"s","a","o"," ","p","a","u","l","o">>,
       <<"r","i","o"," ","d","e"," ","j","a","n","e","i","r","o">>,
       <<"c","a","m","p","i","n","a","s">>,
       <<"g","u","a","r","u","l","h","o","s">>,
       <<"s","a","n","t","o","s">>,
       <<"o","s","a","s","c","o">>,
       <<"s","a","n","t","o"," ","a","n","d","r","é">>,
       <<"s","a","n","t","o"," ","a","n","d","r","e">>,
       <<"s","ã","o"," ","b","e","r","n","a","r","d","o"," ","d","o"," ","c","a","m","p","o">>,
       <<"s","a","o"," ","b","e","r","n","a","r","d","o"," ","d","o"," ","c","a","m","p","o">>,
       <<"r","i","b","e","i","r","ã","o"," ","p","r","e","t","o">>,
       <<"r","i","b","e","i","r","a","o"," ","p","r","e","t","o">> >>

\* line 564 and line 626
MatchesPriority(city_lower, priority) ==
    Contains(priority, city_lower) \/ Contains(city_lower, priority)
is_priority(city_name) ==
    \E k \in 1..Len(priority_cities) : MatchesPriority(Lower(city_name), priority_cities[k])

\* the records of the directory the application's call is answered from: cities of the
\* priority list and others, names the filter of lines 448-489 rejects, a city with two
\* locations, a record without locality, a locality with blanks around it
CityRecords ==
    <<
       [id |-> 201, locality |-> <<"V","i","t","ó","r","i","a">>],
       [id |-> 202, name |-> <<"C","o","n","g","o","n","h","a","s">>, locality |-> <<"S","ã","o"," ","P","a","u","l","o">>],
       [id |-> 203, locality |-> <<"Á","g","u","a"," ","B","o","a">>],
       [id |-> 204, name |-> <<"I","b","i","r","a","p","u","e","r","a">>, locality |-> <<"S","ã","o"," ","P","a","u","l","o">>],
       [id |-> 205, locality |-> <<"B","a","u","r","u">>],
       [id |-> 206, locality |-> <<"C","a","m","p","i","n","a","s">>],
       [id |-> 207, locality |-> <<"S","a","n","t","o","s">>],
       [id |-> 208, locality |-> <<"N","/","A">>],
       [id |-> 209, name |-> <<"P","i","r","a","c","i","c","a","b","a">>],
       [id |-> 210, locality |-> <<"R","i","o"," ","d","e"," ","J","a","n","e","i","r","o">>],
       [id |-> 211, locality |-> <<" ","S","o","r","o","c","a","b","a"," ">>],
       [id |-> 212, locality |-> <<"O","s","a","s","c","o">>],
       [id |-> 213, locality |-> <<"D","i","a","d","e","m","a">>],
       [id |-> 214, locality |-> <<"G","u","a","r","u","l","h","o","s">>],
       [id |-> 215, locality |-> <<"S","a","n","t","o","s"," ","D","u","m","o","n","t">>],
       [id |-> 216, locality |-> <<"J","u","n","d","i","a","í">>],
       [id |-> 217, locality |-> <<"L","i","m","e","i","r","a">>],
       [id |-> 218, locality |-> <<"C","u","b","a","t","ã","o">>],
       [id |-> 219, locality |-> <<"M","a","u","á">>],
       [id |-> 220, locality |-> <<"I","t","u">>],
       [id |-> 221, locality |-> <<"P","a","u","l","í","n","i","a">>],
       [id |-> 222, locality |-> <<"T","a","u","b","a","t","é">>],
       [id |-> 223, locality |-> <<"A","m","e","r","i","c","a","n","a">>],
       [id |-> 224, locality |-> <<"M","a","r","í","l","i","a">>]
    >>

\* lines 506-530
city_to_state ==
    <<
       << <<"s","ã","o"," ","p","a","u","l","o">>, <<"S","P">> >>,
       << <<"s","a","o"," ","p","a","u","l","o">>, <<"S","P">> >>,
       << <<"r","i","o"," ","d","e"," ","j","a","n","e","i","r","o">>, <<"R","J">> >>,
       << <<"c","a","m","p","i","n","a","s">>, <<"S","P">> >>,
       << <<"g","u","a","r","u","l","h","o","s">>, <<"S","P">> >>,
       << <<"s","a","n","t","o","s">>, <<"S","P">> >>,
       << <<"o","s","a","s","c","o">>, <<"S","P">> >>,
       << <<"s","a","n","t","o"," ","a","n","d","r","é">>, <<"S","P">> >>,
       << <<"s","a","n","t","o"," ","a","n","d","r","e">>, <<"S","P">> >>,
       << <<"s","ã","o"," ","b","e","r","n","a","r","d","o"," ","d","o"," ","c","a","m","p","o">>, <<"S","P">> >>,
       << <<"s","a","o"," ","b","e","r","n","a","r","d","o"," ","d","o"," ","c","a","m","p","o">>, <<"S","P">> >>,
       << <<"r","i","b","e","i","r","ã","o"," ","p","r","e","t","o">>, <<"S","P">> >>,
       << <<"r","i","b","e","i","r","a","o"," ","p","r","e","t","o">>, <<"S","P">> >>,
       << <<"d","i","a","d","e","m","a">>, <<"S","P">> >>,
       << <<"j","a","c","a","r","e","í">>, <<"S","P">> >>,
       << <<"j","a","c","a","r","e","i">>, <<"S","P">> >>,
       << <<"s","a","n","t","a"," ","g","e","r","t","r","u","d","e","s">>, <<"S","P">> >>,
       << <<"t","a","u","b","a","t","é">>, <<"S","P">> >>,
       << <<"t","a","u","b","a","t","e">>, <<"S","P">> >>,
       << <<"t","a","t","u","í">>, <<"S","P">> >>,
       << <<"t","a","t","u","i">>, <<"S","P">> >>,
       << <<"p","i","r","a","c","i","c","a","b","a">>, <<"S","P">> >>,
       << <<"a","r","a","r","a","q","u","a","r","a">>, <<"S","P">> >>,
       << <<"c","a","t","a","n","d","u","v","a">>, <<"S","P">> >>,
       << <<"a","m","e","r","i","c","a","n","a">>, <<"S","P">> >>,
       << <<"a","r","a","ç","a","t","u","b","a">>, <<"S","P">> >>,
       << <<"a","r","a","c","a","t","u","b","a">>, <<"S","P">> >>,
       << <<"b","a","u","r","u">>, <<"S","P">> >>,
       << <<"c","a","r","a","p","i","c","u","í","b","a">>, <<"S","P">> >>,
       << <<"c","a","r","a","p","i","c","u","i","b","a">>, <<"S","P">> >>,
       << <<"m","o","g","i"," ","d","a","s"," ","c","r","u","z","e","s">>, <<"S","P">> >>,
       << <<"m","o","g","i","-","d","a","s","-","c","r","u","z","e","s">>, <<"S","P">> >>,
       << <<"i","m","p","e","r","a","t","r","i","z">>, <<"M","A">> >>
    >>

\* lines 541 and 549: city_to_state.get(city_key), <<>> for None
StateOf(city_key) ==
    IF \E k \in 1..Len(city_to_state) : city_to_state[k][1] = city_key
    THEN city_to_state[CHOOSE k \in 1..Len(city_to_state) : city_to_state[k][1] = city_key][2]
    ELSE <<>>

\* the records get_available_cities can be given
DirectoryRecords == LocationPool \cup Range(CityRecords)

\* line 537: loc.get('locality') or loc.get('name'), <<>> for None
CityOf(loc) ==
    IF Truthy(loc, "locality") THEN loc.locality
    ELSE IF Truthy(loc, "name") THEN loc.name
    ELSE <<>>

\* lines 547-554: the entry of the location's city gets the location's id
AddToCities(cities_dict, city_clean, id) ==
    IF \E k \in 1..Len(cities_dict) : cities_dict[k].name = city_clean
    THEN [k \in 1..Len(cities_dict) |->
            IF cities_dict[k].name = city_clean
            THEN [cities_dict[k] EXCEPT !.location_ids = Append(@, id)]
            ELSE cities_dict[k]]
    ELSE Append(cities_dict, [name |-> city_clean, state |-> StateOf(Lower(city_clean)),
                              location_ids |-> <<id>>])

\* line 539 on the locations of the model, computed once
LocationsWithCity ==
    {loc \in DirectoryRecords :
        CityOf(loc) # <<>> /\ Strip(CityOf(loc)) # <<>> /\ is_valid_city_name(CityOf(loc))}

\* lines 533-554: the cities of the locations, in order of first appearance
RECURSIVE BuildCities(_, _)
BuildCities(locs, cities_dict) ==
    IF locs = <<>> THEN cities_dict
    ELSE BuildCities(Tail(locs),
                     IF locs[1] \in LocationsWithCity
                     THEN AddToCities(cities_dict, Strip(CityOf(locs[1])),
                                      Get(locs[1], "id", NoneId))
                     ELSE cities_dict)

\* line 564 on the city names of the model, computed once
PriorityNames ==
    {Strip(CityOf(loc)) : loc \in {l \in DirectoryRecords : is_priority(Strip(CityOf(l)))}}

\* lines 558-572: the priority cities first, then the others
cities_to_check(cities_dict) ==
    LET prio(e) == e.name \in PriorityNames
        other(e) == e.name \notin PriorityNames
    IN  SelectSeq(cities_dict, prio) \o SelectSeq(cities_dict, other)

\* the characters of the model in the order of their code points, which is the order in
\* which python compares the characters of two strings
CodePoints ==
    <<
       " ","-",".","/","0","1","2","3","4","5","6","7","8","9","A","B",
       "C","D","E","F","G","H","I","J","K","L","M","N","O","P","Q","R",
       "S","T","U","V","W","X","Y","Z","_","a","b","c","d","e","f","g",
       "h","i","j","k","l","m","n","o","p","q","r","s","t","u","v","w",
       "x","y","z","À","Á","Â","Ã","Ç","È","É","Ê","Ì","Í","Î","Ñ","Ò",
       "Ó","Ô","Ù","Ú","Û","à","á","â","ã","ç","è","é","ê","ì","í","î",
       "ñ","ò","ó","ô","ù","ú","û"
    >>

Ord(ch) == CHOOSE i \in 1..Len(CodePoints) : CodePoints[i] = ch

\* s < t for two python strings
RECURSIVE StrLess(_, _)
StrLess(s, t) ==
    IF t = <<>> THEN FALSE
    ELSE IF s = <<>> THEN TRUE
    ELSE IF s[1] # t[1] THEN Ord(s[1]) < Ord(t[1])
    ELSE StrLess(Tail(s), Tail(t))

\* lines 622-628: group 0 and the index of the first priority city that matches, or group
\* 1 and the name
sort_key(city_info) ==
    LET city_lower == Lower(city_info.name)
        hits == {i \in 1..Len(priority_cities) : MatchesPriority(city_lower, priority_cities[i])}
    IN  IF hits # {}
        THEN [group |-> 0, i |-> (CHOOSE i \in hits : \A j \in hits : i <= j) - 1, name |-> <<>>]
        ELSE [group |-> 1, i |-> 0, name |-> city_info.name]

\* the order of python tuples on the keys
KeyLess(a, b) ==
    \/ a.group < b.group
    \/ a.group = b.group /\ a.group = 0 /\ a.i < b.i
    \/ a.group = b.group /\ a.group = 1 /\ StrLess(a.name, b.name)

\* x put into the sorted list after the elements that are not greater
RECURSIVE Insert(_, _)
Insert(x, sorted) ==
    IF sorted = <<>> THEN <<x>>
    ELSE IF KeyLess(sort_key(x), sort_key(sorted[1])) THEN <<x>> \o sorted
    ELSE <<sorted[1]>> \o Insert(x, Tail(sorted))

\* line 630: list.sort(key=sort_key), which is stable
RECURSIVE Sorted(_)
Sorted(list) ==
    IF list = <<>> THEN <<>>
    ELSE Insert(list[Len(list)], Sorted(SubSeq(list, 1, Len(list) - 1)))

\* lines 630-637: the value get_available_cities returns after the probe loop
ReturnedCities(cities_with_data) ==
    LET sorted == Sorted(cities_with_data)
    IN  [isNone |-> FALSE, records |-> SubSeq(sorted, 1, Min(GacMaxCities, Len(sorted)))]

\* every way get_available_cities ends (lines 372, 392, 406, 637, 641) with frame g and
\* value: back at line 247, where the value is dropped, or back in the application
GacReturns(g, value) ==
    IF g.caller = "app"
    THEN gac' = g /\ Return(value)
    ELSE gac' = NoGac /\ Return(ResultNone)

\* lines 354-372: the call of the application, with its arguments and the environment's
\* OPENAQ_API_KEY
GacStart ==
    /\ pc = "gac_start"
    /\ UNCHANGED <<proc, txt>>
    /\ \E co \in CountryArgs, key \in {"", "k"}, env \in {"", "k"} :
        LET k == IF key # "" THEN key ELSE env
        IN  /\ country' = co
            /\ api_key' = k
            /\ IF k = "" THEN GacReturns(gac, ResultNone)
               ELSE pc' = "gac_countries" /\ UNCHANGED <<result, gac>>
    /\ UNCHANGED <<city, countries_response, country_id, page, city_locations, li, all_results,
                   srvLatest, hist>>

\* lines 379-406
GacCountries ==
    /\ pc = "gac_countries"
    /\ UNCHANGED <<proc, txt>>
    /\ \E r \in CountryResponses :
        /\ OtherRequest("gac_countries", 0, r)
        /\ IF CountryLookupFails(r, country)
           THEN GacReturns(gac, ResultNone)
           ELSE /\ gac' = [NoGac EXCEPT !.caller = gac.caller,
                                        !.country_id = FindCountry(r.results, country).id,
                                        !.page = 1]
                /\ pc' = "gac_scan"
                /\ UNCHANGED result
    /\ UNCHANGED <<api_key, city, country, countries_response, country_id, page,
                   city_locations, li, all_results, srvLatest, pagesAsked, latestReqs, probed,
                   pageMatches>>

\* faulty variant: the limit of fifteen probes left out
ProbeGoesOn_no_limit(g) ==
    /\ g.ci < Len(g.cities_to_check)
    /\ Len(g.cities_with_data) < GacMaxCities

\* lines 574-583: is there another city to probe
ProbeGoesOn(g) ==
    /\ g.ci < Len(g.cities_to_check)
    /\ Len(g.cities_with_data) < GacMaxCities
    /\ g.checked_count < max_to_check

\* lines 447-583: after the page loop.  No page is asked from here on, and the model
\* forgets the history of the pages asked.
GacAfterScan(g) ==
    LET g2 == [g EXCEPT !.cities_to_check = cities_to_check(g.cities_dict),
                        !.cities_dict = <<>>]
    IN  /\ page' = 0
        /\ pagesAsked' = <<>>
        /\ IF ProbeGoesOn(g2)
           THEN /\ gac' = g2
                /\ pc' = "gac_probe"
                /\ UNCHANGED result
           ELSE GacReturns(g2, ReturnedCities(g2.cities_with_data))

\* what the server may answer to a request for a page of the directory: to the call of
\* the application a page of the first records of CityRecords, padded or not with records
\* that name no city; to the call within fetch_air_quality_data, whose value is dropped, a
\* page of PageResponses with at most one record of the model
DirectoryLengths == {0, 4, Len(CityRecords)}
DirectoryResponses ==
    {[status |-> st, exc |-> "", locs |-> <<>>, pad |-> 0, found |-> 0] : st \in {401, 500}}
    \cup {[status |-> 0, exc |-> k, locs |-> <<>>, pad |-> 0, found |-> 0] : k \in ExceptionKinds}
    \cup {[status |-> 200, exc |-> "", locs |-> SubSeq(CityRecords, 1, n), pad |-> pd,
           found |-> f] :
            n \in DirectoryLengths, pd \in {0, limit_per_page}, f \in FoundValues}
EmbeddedResponses == {r \in PageResponses : Len(r.locs) <= 1}
GacPageResponses(caller) ==
    IF caller = "app" THEN DirectoryResponses ELSE EmbeddedResponses

\* lines 413-445: one iteration of the page loop
GacPage ==
    /\ pc = "gac_scan"
    /\ UNCHANGED <<proc, txt>>
    /\ gac.page <= MaxGacPages
    /\ \E r \in GacPageResponses(gac.caller) :
        /\ OtherRequest("gac_locations", gac.page, r)
        /\ IF r.exc # ""
           THEN /\ GacReturns(gac, ResultNone)
                /\ pagesAsked' = Append(pagesAsked, gac.page)
                /\ UNCHANGED page
           ELSE IF r.status # 200 \/ PageLen(r) = 0
           THEN GacAfterScan(gac)
           ELSE LET g == [gac EXCEPT !.cities_dict = BuildCities(r.locs, @),
                                     !.n_locations = @ + PageLen(r)]
                IN  IF g.n_locations >= r.found \/ PageLen(r) < limit_per_page
                    THEN GacAfterScan(g)
                    ELSE /\ gac' = [g EXCEPT !.page = @ + 1]
                         /\ pagesAsked' = Append(pagesAsked, gac.page)
                         /\ UNCHANGED <<pc, result, page>>
    /\ UNCHANGED <<api_key, city, country, countries_response, country_id, city_locations,
                   li, all_results, srvLatest, latestReqs, probed, pageMatches>>

\* lines 598-602
has_data(r) == r.exc = "" /\ r.status = 200 /\ r.results # <<>>

\* lines 606-617: the entry of a city that has data
CityEntry(city_name, state) ==
    [name |-> city_name,
     display |-> IF state # <<>> THEN city_name \o <<" ","-"," ">> \o state ELSE city_name,
     state |-> state]

\* lines 578-619: one iteration of the probe loop
GacProbe ==
    /\ pc = "gac_probe"
    /\ UNCHANGED <<proc, txt>>
    /\ ProbeGoesOn(gac)
    /\ LET entry == gac.cities_to_check[gac.ci + 1]
           location_id == entry.location_ids[1]
       IN  \E r \in LatestAnswers(location_id) :
            /\ OtherRequest("gac_latest", location_id, r)
            /\ LET g == [gac EXCEPT !.ci = @ + 1,
                                    !.checked_count = @ + 1,
                                    !.cities_with_data =
                                        IF has_data(r)
                                        THEN Append(@, CityEntry(entry.name, entry.state))
                                        ELSE @]
               IN  IF ProbeGoesOn(g)
                   THEN /\ gac' = g
                        /\ probed' = Append(probed, location_id)
                        /\ UNCHANGED <<pc, result>>
                   ELSE /\ GacReturns(g, ReturnedCities(g.cities_with_data))
                        /\ probed' = IF g.caller = "app" THEN Append(probed, location_id)
                                     ELSE <<>>
    /\ UNCHANGED <<api_key, city, country, countries_response, country_id, page,
                   city_locations, li, all_results, srvLatest, pagesAsked, latestReqs,
                   pageMatches>>

----------------------------------------------------------------------------
(* modules/data_processor.py.  A table (pandas DataFrame) is its set of column names and  *)
(* the sequence of its rows; a row is a record with the columns it has a value for.  The  *)
(* lists of the model are homogeneous: all the records of a list have the same keys, as   *)
(* the records of one producer have (data_fetcher.py lines 303-314), so that no cell of   *)
(* the table is missing; only the parsed datetime of a row may be NaT.                    *)

\* records of the argument, as fetch_air_quality_data builds them
RecA10 == [parameter |-> "pm25", value |-> 10, unit |-> "μg/m³",
           date |-> [utc |-> "2024-01-01T12:00:00Z"], location |-> "A", locationId |-> 1]
RecA20 == [parameter |-> "pm25", value |-> 20, unit |-> "ppm",
           date |-> [utc |-> "2024-01-01T12:00:00Z"], location |-> "A", locationId |-> 1]
RecB20 == [parameter |-> "pm25", value |-> 20, unit |-> "μg/m³",
           date |-> [utc |-> "2024-01-01T12:00:00Z"], location |-> "B", locationId |-> 2]
RecA30Later == [parameter |-> "pm25", value |-> 30, unit |-> "μg/m³",
                date |-> [utc |-> "2024-01-01T13:00:00Z"], location |-> "A", locationId |-> 1]
RecO3 == [parameter |-> "o3", value |-> 40, unit |-> "ppm",
          date |-> [utc |-> "2024-01-01T12:00:00Z"], location |-> "A", locationId |-> 1]
RecO3Later == [parameter |-> "o3", value |-> 25, unit |-> "ppm",
               date |-> [utc |-> "2024-01-01T13:00:00Z"], location |-> "B", locationId |-> 2]
\* date.utc is '' (the default of line 309 of data_fetcher.py)
RecNoTime == [parameter |-> "pm25", value |-> 10, unit |-> "μg/m³",
              date |-> [utc |-> ""], location |-> "A", locationId |-> 1]
RecNo2NoTime == [parameter |-> "no2", value |-> 5, unit |-> "ppb",
                 date |-> [utc |-> ""], location |-> "B", locationId |-> 2]
\* date.utc is no timestamp
RecBadTime == [parameter |-> "o3", value |-> 40, unit |-> "ppm",
               date |-> [utc |-> "not-a-date"], location |-> "B", locationId |-> 2]
RecordPool ==
    {RecA10, RecA20, RecB20, RecA30Later, RecO3, RecO3Later, RecNoTime, RecNo2NoTime,
     RecBadTime}

\* the keys the records of a list have: those of data_fetcher.py ("api"); the same without
\* one or two of them; with the timestamp string under 'datetime' instead of 'date'; with
\* the timestamp string itself, not a dict, under 'date'.  A value of 'date' that is a
\* string s is the record [str |-> s]
Shapes ==
    {"api", "no_location", "no_location_no_id", "no_parameter", "no_value", "no_date",
     "datetime", "date_string"}

Without1(d, k) == [x \in DOMAIN d \ {k} |-> d[x]]

Shaped(d, shape) ==
    CASE shape = "api" -> d
      [] shape = "no_location" -> Without1(d, "location")
      [] shape = "no_location_no_id" -> Without1(Without1(d, "location"), "locationId")
      [] shape = "no_parameter" -> Without1(d, "parameter")
      [] shape = "no_value" -> Without1(d, "value")
      [] shape = "no_date" -> Without1(d, "date")
      [] shape = "datetime" -> Without1(d, "date") @@ [datetime |-> d.date.utc]
      [] shape = "date_string" -> [d EXCEPT !.date = [str |-> d.date.utc]]

\* the arguments of process_data: None, or a list of at most MaxRecords records
DataNone == [isNone |-> TRUE, records |-> <<>>]
DataList(records) == [isNone |-> FALSE, records |-> records]
RECURSIVE ListsUpTo(_, _)
ListsUpTo(S, n) ==
    IF n = 0 THEN {<<>>}
    ELSE LET shorter == ListsUpTo(S, n - 1)
         IN  shorter \cup UNION {{Append(q, x) : x \in S} :
                                    q \in {t \in shorter : Len(t) = n - 1}}
Inputs ==
    {DataNone}
    \cup {DataList([i \in 1..Len(l) |-> Shaped(l[i], shape)]) :
            l \in ListsUpTo(RecordPool, MaxRecords), shape \in Shapes}

\* pandas NaT
NaT == 0 - 1
\* a string pandas.to_datetime cannot parse
Unparseable == 0 - 2

\* pandas.to_datetime of one string: the instant, in hours since 2024-01-01T00:00Z; NaT
\* for the empty string
ParseTimestamp(str) ==
    CASE str = "2024-01-01T12:00:00Z" -> 12
      [] str = "2024-01-01T13:00:00Z" -> 13
      [] str = "" -> NaT
      [] OTHER -> Unparseable

\* isinstance(x, dict) for a value of 'date'
IsDict(x) == "str" \notin DOMAIN x

\* line 31: the columns of pd.DataFrame(data)
Columns(records) == UNION {DOMAIN records[i] : i \in 1..Len(records)}

\* lines 38-44: the strings handed to pd.to_datetime and its errors mode; no_column when
\* there is neither 'date' nor 'datetime'
DatetimeSource(records) ==
    IF "date" \in Columns(records)
    THEN IF IsDict(records[1].date)
         THEN [no_column |-> FALSE, errors |-> "raise",
               strings |-> [i \in 1..Len(records) |->
                              IF IsDict(records[i].date)
                              THEN Get(records[i].date, "utc", "")
                              ELSE records[i].date.str]]
         ELSE [no_column |-> FALSE, errors |-> "coerce",
               strings |-> [i \in 1..Len(records) |->
                              IF IsDict(records[i].date) THEN "{...}"
                              ELSE records[i].date.str]]
    ELSE IF "datetime" \in Columns(records)
    THEN [no_column |-> FALSE, errors |-> "coerce",
          strings |-> [i \in 1..Len(records) |-> records[i].datetime]]
    ELSE [no_column |-> TRUE, errors |-> "", strings |-> <<>>]

\* pd.to_datetime(strings, errors=...): raised, or the parsed column
to_datetime(strings, errors) ==
    LET parsed == [i \in 1..Len(strings) |-> ParseTimestamp(strings[i])]
    IN  IF errors = "raise" /\ \E i \in 1..Len(parsed) : parsed[i] = Unparseable
        THEN [raised |-> TRUE, column |-> <<>>]
        ELSE [raised |-> FALSE,
              column |-> [i \in 1..Len(parsed) |->
                            IF parsed[i] = Unparseable THEN NaT ELSE parsed[i]]]

\* faulty variant: line 50 left out
dropna_none(rows) == rows

\* line 50: df.dropna(subset=['datetime'])
dropna(rows) ==
    LET valid(row) == row.datetime # NaT
    IN  SelectSeq(rows, valid)

\* lines 57-58
missing_columns(columns) == {"parameter", "value"} \ columns

\* lines 65-69: the column 'location' when the records have none
WithLocation(rows, columns) ==
    IF "location" \in columns THEN rows
    ELSE IF "locationId" \in columns
    THEN [i \in 1..Len(rows) |-> rows[i] @@ [location |-> rows[i].locationId]]
    ELSE [i \in 1..Len(rows) |-> rows[i] @@ [location |-> "unknown"]]

\* rows equal on the columns of lines 72-74
SameKey(r1, r2) ==
    /\ r1.datetime = r2.datetime
    /\ r1.parameter = r2.parameter
    /\ r1.location = r2.location

\* faulty variant: line 76 left out
drop_duplicates_none(rows) == rows

\* line 76: df.drop_duplicates(subset=subset_cols) keeps the first row of each key
RECURSIVE drop_duplicates(_)
drop_duplicates(rows) ==
    IF rows = <<>> THEN <<>>
    ELSE LET n == Len(rows)
             before == drop_duplicates(SubSeq(rows, 1, n - 1))
         IN  IF \E i \in 1..(n - 1) : SameKey(rows[i], rows[n])
             THEN before
             ELSE Append(before, rows[n])

\* faulty variant: line 77 left out
sort_values_none(rows) == {rows}

\* line 77: df.sort_values('datetime').  The default sort is not stable: rows of equal
\* datetime come out in any order
sort_values(rows) ==
    LET n == Len(rows)
        orders == {f \in [1..n -> 1..n] :
                     /\ \A i, j \in 1..n : i # j => f[i] # f[j]
                     /\ \A i \in 1..(n - 1) : rows[f[i]].datetime <= rows[f[i + 1]].datetime}
    IN  {[i \in 1..n |-> rows[f[i]]] : f \in orders}

TableNone == [isNone |-> TRUE, columns |-> {}, rows |-> <<>>]
Table(columns, rows) == [isNone |-> FALSE, columns |-> columns, rows |-> rows]
\* pd.DataFrame()
EmptyTable == Table({}, <<>>)

\* lines 15-84: the results process_data may return for d
process_data(d) ==
    IF d.isNone \/ d.records = <<>> THEN {TableNone}
    ELSE IF Columns(d.records) = {} THEN {TableNone}
    ELSE LET source == DatetimeSource(d.records)
             parsed == to_datetime(source.strings, source.errors)
             columns == Columns(d.records) \cup {"datetime"}
             rows == [i \in 1..Len(d.records) |->
                        [datetime |-> parsed.column[i]] @@ d.records[i]]
         IN  IF source.no_column \/ parsed.raised THEN {TableNone}
             ELSE IF dropna(rows) = <<>> THEN {TableNone}
             ELSE IF missing_columns(columns) # {} THEN {TableNone}
             ELSE {Table(columns \cup {"location"}, sorted) :
                     sorted \in sort_values(
                                  drop_duplicates(WithLocation(dropna(rows), columns)))}

\* a mean, as a fraction in lowest terms; NaN is 0/0
RECURSIVE Gcd(_, _)
Gcd(a, b) == IF b = 0 THEN a ELSE Gcd(b, a % b)
RECURSIVE Sum(_)
Sum(values) == IF values = <<>> THEN 0 ELSE values[1] + Sum(Tail(values))
NaN == [num |-> 0, den |-> 0]
\* faulty variant: the sum in place of the mean
Mean_sum(values) == [num |-> Sum(values), den |-> 1]

\* Series.mean()
Mean(values) ==
    IF values = <<>> THEN NaN
    ELSE LET g == Gcd(Sum(values), Len(values))
         IN  [num |-> Sum(values) \div g, den |-> Len(values) \div g]

\* df['datetime'].max()
MaxDatetime(rows) ==
    CHOOSE d \in {rows[i].datetime : i \in 1..Len(rows)} :
        \A i \in 1..Len(rows) : rows[i].datetime <= d

\* faulty variant: line 103 left out
latest_data_all(rows) == rows

\* lines 102-103: the rows of the latest datetime
latest_data(rows) ==
    LET latest(row) == row.datetime = MaxDatetime(rows)
    IN  SelectSeq(rows, latest)

\* the values of column 'value' of rows
ValuesOf(rows) == [i \in 1..Len(rows) |-> rows[i].value]

MeasurementsNone == [isNone |-> TRUE, entries |-> <<>>]

\* lines 87-123
get_latest_measurements(t) ==
    IF t.isNone \/ t.rows = <<>> \/ t.columns = {} THEN MeasurementsNone
    ELSE LET latest_date == MaxDatetime(t.rows)
             latest == latest_data(t.rows)
             params == {latest[i].parameter : i \in 1..Len(latest)}
             param_data(param) ==
                 LET is_param(row) == row.parameter = param
                 IN  SelectSeq(latest, is_param)
         IN  [isNone |-> FALSE,
              entries |-> [param \in params |->
                             [value |-> Mean(ValuesOf(param_data(param))),
                              unit |-> IF "unit" \in t.columns
                                       THEN param_data(param)[1].unit
                                       ELSE DefaultUnit,
                              datetime |-> latest_date]]]

PivotNone == [isNone |-> TRUE, index |-> {}, columns |-> {}, cells |-> <<>>]

\* lines 126-152: df.pivot_table(index='datetime', columns='parameter', values='value',
\* aggfunc='mean'); a cell with no row is NaN
pivot_data_by_parameter(t) ==
    IF t.isNone \/ t.rows = <<>> \/ t.columns = {} THEN PivotNone
    ELSE LET index == {t.rows[i].datetime : i \in 1..Len(t.rows)}
             columns == {t.rows[i].parameter : i \in 1..Len(t.rows)}
             group(d, param) ==
                 LET in_group(row) == row.datetime = d /\ row.parameter = param
                 IN  SelectSeq(t.rows, in_group)
         IN  [isNone |-> FALSE, index |-> index, columns |-> columns,
              cells |-> [c \in index \X columns |-> Mean(ValuesOf(group(c[1], c[2])))]]

\* the caller of the three functions (app.py lines 265-273, the tests)
ProcessorIdle ==
    /\ ppc = "idle"
    /\ data = DataNone
    /\ df = TableNone
    /\ measurements = MeasurementsNone
    /\ pivot_df = PivotNone

\* df = process_data(data)
ProcessData ==
    /\ ppc = "input"
    /\ \E t \in process_data(data) : df' = t
    /\ ppc' = "table"
    /\ UNCHANGED <<data, measurements, pivot_df, prog, srvLatest, hist, txt>>

\* df = pd.DataFrame(), as the tests of the two other functions do
EmptyFrame ==
    /\ ppc = "input"
    /\ data = DataNone
    /\ df' = EmptyTable
    /\ ppc' = "table"
    /\ UNCHANGED <<data, measurements, pivot_df, prog, srvLatest, hist, txt>>

GetLatestMeasurements ==
    /\ ppc = "table"
    /\ measurements' = get_latest_measurements(df)
    /\ ppc' = "latest"
    /\ UNCHANGED <<data, df, pivot_df, prog, srvLatest, hist, txt>>

PivotDataByParameter ==
    /\ ppc = "latest"
    /\ pivot_df' = pivot_data_by_parameter(df)
    /\ ppc' = "pivoted"
    /\ UNCHANGED <<data, df, measurements, prog, srvLatest, hist, txt>>

----------------------------------------------------------------------------
(* The text functions on their own *)

\* no text function has been called on its own
TextIdle ==
    /\ tpc = "idle"
    /\ raw_text = <<>>
    /\ normalized = <<>>
    /\ renormalized = <<>>
    /\ requested = <<>>
    /\ scanned = [id |-> 0]
    /\ requested_variants = {}
    /\ loc_found = FALSE

\* the arguments of normalize_text: each letter on its own, and the strings of up to
\* MaxTextLen characters over the accented letters of both cases and a, n, z, A, N, Z
Letters == Range(UpperAlphabet) \cup Range(LowerAlphabet)
AccentedLetters ==
    {replacements[i][1] : i \in 1..Len(replacements)}
    \cup {UpperChar(replacements[i][1]) : i \in 1..Len(replacements)}
TextLetters == AccentedLetters \cup {"a", "n", "z", "A", "N", "Z"}
TextsOfLength(n) == [1..n -> TextLetters]

\* line 134: the keys of city_variants_map; each list starts with its key
city_variants_key(k) == city_variants_map[k][1]

\* the requested cities that are aliases of the table, as listed and in upper case
AliasRequests ==
    UNION {{v, Upper(v)} : v \in UNION {Range(city_variants_map[k]) :
                                          k \in 1..Len(city_variants_map)}}

\* names a location may carry for the city of key k: the key in upper case, and the key
\* inside a longer name
NamesOf(k) ==
    {Upper(city_variants_key(k)),
     <<"E","s","t","a","ç","ã","o"," ">> \o city_variants_key(k) \o <<" ","-"," ","1">>}

\* the locations a page of the directory may hold: the city's name in 'name', in
\* 'locality' or in the provider's name; the locations of the fetch model; a location
\* with none of the three; a location named by an alias only
ScanPool ==
    UNION {{[id |-> 1, name |-> t],
            [id |-> 2, name |-> <<"X","1">>, locality |-> t],
            [id |-> 3, provider |-> [name |-> t]]} :
              t \in UNION {NamesOf(k) : k \in 1..Len(city_variants_map)}}
    \cup LocationPool
    \cup {[id |-> 4], [id |-> 5, name |-> <<"S","P">>]}

\* normalize_text(text), as lines 194-197 call it
NormalizeText ==
    /\ tpc = "text"
    /\ normalized' = normalize_text(raw_text)
    /\ tpc' = "normalized"
    /\ UNCHANGED <<raw_text, renormalized, requested, scanned, requested_variants,
                   loc_found, prog,
                   srvLatest,
                   hist, proc>>

\* normalize_text applied to its own result
NormalizeAgain ==
    /\ tpc = "normalized"
    /\ renormalized' = normalize_text(normalized)
    /\ tpc' = "renormalized"
    /\ UNCHANGED <<raw_text, normalized, requested, scanned, requested_variants,
                   loc_found, prog,
                   srvLatest,
                   hist, proc>>

\* lines 193-208: one location of a page is tested against the variants of the city
\* requested names that are no alias: one that has the word 'rio', one that has the
\* letters 'sp', one that has a key of the table, one that has nothing of the table
OtherRequests ==
    { <<"R","i","o"," ","C","l","a","r","o">>,
      <<"E","s","p","e","r","a","n","t","i","n","a">>,
      <<"S","ã","o"," ","P","a","u","l","o"," ","C","e","n","t","r","o">>,
      <<"C","a","m","p","i","n","a","s">> }

MatchLocation ==
    /\ tpc = "scan"
    /\ requested_variants' = city_variants(requested)
    /\ loc_found' = LocMatches(requested, scanned)
    /\ tpc' = "scanned"
    /\ UNCHANGED <<raw_text, normalized, renormalized, requested, scanned, prog, srvLatest,
                   hist, proc>>

----------------------------------------------------------------------------

Next ==
    \/ Start
    \/ GetCountries
    \/ ScanPage
    \/ LatestStep
    \/ GacCountries
    \/ GacPage
    \/ GacProbe

Init == FetcherInit /\ ProcessorIdle /\ TextIdle

Spec == Init /\ [][Next]_vars

----------------------------------------------------------------------------
(* get_available_cities as the application calls it (app.py line 97) *)

\* what the server has for a location: readings, no reading, no such location, or no
\* answer in time
LiveAnswer == [status |-> 200, exc |-> "", results |-> <<Reading2, Reading3>>]
DeadAnswers ==
    {[status |-> 200, exc |-> "", results |-> <<>>],
     [status |-> 404, exc |-> "", results |-> <<>>],
     [status |-> 0, exc |-> "Timeout", results |-> <<>>]}
CityIds == {CityRecords[k].id : k \in 1..Len(CityRecords)}
\* the server's data: every location has readings, or those whose id is a multiple of m
\* have not
LatestData ==
    {[x \in CityIds |-> LiveAnswer]}
    \cup {[x \in CityIds |-> IF x % m = 0 THEN dead ELSE LiveAnswer] :
            m \in 1..3, dead \in DeadAnswers}

InitCities ==
    /\ ProcessorIdle
    /\ TextIdle
    /\ pc = "gac_start"
    /\ api_key = ""
    /\ city = <<>>
    /\ country = <<>>
    /\ countries_response = NoResponse
    /\ country_id = NoneId
    /\ page = 0
    /\ city_locations = <<>>
    /\ li = 0
    /\ all_results = <<>>
    /\ result = ResultNone
    /\ gac = [NoGac EXCEPT !.caller = "app"]
    /\ srvLatest \in LatestData
    /\ last = NoRequest
    /\ pagesAsked = <<>>
    /\ latestReqs = <<>>
    /\ dir401 = FALSE
    /\ afterDir401 = FALSE
    /\ probed = <<>>
    /\ pageMatches = <<>>

NextCities ==
    \/ GacStart
    \/ GacCountries
    \/ GacPage
    \/ GacProbe

SpecCities == InitCities /\ [][NextCities]_vars

\* the data processor on its own
InitProcessor ==
    /\ FetcherInit
    /\ TextIdle
    /\ ppc = "input"
    /\ data \in Inputs
    /\ df = TableNone
    /\ measurements = MeasurementsNone
    /\ pivot_df = PivotNone

NextProcessor ==
    \/ ProcessData
    \/ EmptyFrame
    \/ GetLatestMeasurements
    \/ PivotDataByParameter

SpecProcessor == InitProcessor /\ [][NextProcessor]_vars

\* the text functions on their own
InitText ==
    /\ FetcherInit
    /\ ProcessorIdle
    /\ normalized = <<>>
    /\ renormalized = <<>>
    /\ requested_variants = {}
    /\ loc_found = FALSE
    /\ \/ /\ tpc = "text"
          /\ \/ raw_text \in {<<c>> : c \in Letters}
             \/ \E n \in 0..MaxTextLen : raw_text \in TextsOfLength(n)
          /\ requested = <<>>
          /\ scanned = [id |-> 0]
       \/ /\ tpc = "scan"
          /\ raw_text = <<>>
          /\ requested \in AliasRequests \cup OtherRequests
          /\ scanned \in ScanPool

NextText ==
    \/ NormalizeText
    \/ NormalizeAgain
    \/ MatchLocation

SpecText == InitText /\ [][NextText]_vars

----------------------------------------------------------------------------
(* Properties *)

\* the answer to the i-th request of the latest loop
LatestAnswer(i) == srvLatest[latestReqs[i]]
\* the loop got a 401 or a 429
SomeFatalAnswer ==
    \E i \in 1..Len(latestReqs) :
        LatestAnswer(i).exc = "" /\ LatestAnswer(i).status \in {401, 429}
\* the call returned from the end of the latest loop
LoopCompleted == pc = "done" /\ latestReqs # <<>> /\ ~SomeFatalAnswer
\* the readings of an answer that are turned into records: those before the first entry
\* that is not an object
RECURSIVE GoodPrefix(_)
GoodPrefix(results) ==
    IF results = <<>> \/ "notADict" \in DOMAIN results[1] THEN <<>>
    ELSE <<results[1]>> \o GoodPrefix(Tail(results))
\* the readings behind the records of the first n requests, each with its location
RECURSIVE RecordSources(_)
RecordSources(n) ==
    IF n = 0 THEN <<>>
    ELSE LET r == LatestAnswer(n)
             readings == IF r.exc = "" /\ r.status = 200 THEN GoodPrefix(r.results) ELSE <<>>
         IN  RecordSources(n - 1)
             \o [k \in 1..Len(readings) |->
                    [location |-> city_locations[n], reading |-> readings[k]]]

\* C1: when a GET /countries or GET /locations request of the call answered 401, the call
\* returns None: no record is returned, also none of a location matched before the 401.
C1_Dir401ReturnsNone == (pc = "done" /\ dir401) => result.isNone

\* C2: after a GET /countries or GET /locations answer with status 401 the call issues no
\* further HTTP request of any kind.
C2_NoRequestAfterDir401 == ~afterDir401

\* C3: the call asks for at most 30 pages of /locations, in the order 1, 2, 3, ..., and
\* for no page twice.
C3_PagesOnceInOrder ==
    /\ Len(pagesAsked) <= 30
    /\ \A i \in 1..Len(pagesAsked) : pagesAsked[i] = i

\* C4: a 401 or 429 answer to a /latest request ends the call: it is the last request,
\* none of the remaining locations is asked, and the call returns None whatever records
\* it had collected.
C4_FatalLatestStatus ==
    \A i \in 1..Len(latestReqs) :
        (LatestAnswer(i).exc = "" /\ LatestAnswer(i).status \in {401, 429})
        => /\ i = Len(latestReqs)
           /\ last = [kind |-> "latest", arg |-> latestReqs[i],
                      status |-> LatestAnswer(i).status, exc |-> "", full |-> FALSE,
                      found |-> 0]
           /\ pc = "done"
           /\ result.isNone
C4_Witness ==
    /\ pc = "done"
    /\ last.kind = "latest" /\ last.status = 429
    /\ all_results # <<>>
    /\ result.isNone
    /\ Len(latestReqs) = 2
    /\ Len(city_locations) >= 3

\* C5: a /latest answer with status 404 or another status that is not 200, 401 or 429 is
\* a skip of its location: unless a 401 or 429 ends the call, every selected location is
\* asked, and the call returns the records of all the locations that answered 200, None
\* when there is no record.
C5_SkipStatus ==
    (/\ pc = "done"
     /\ ~SomeFatalAnswer
     /\ \E i \in 1..Len(latestReqs) :
            LatestAnswer(i).exc = "" /\ LatestAnswer(i).status \notin {200, 401, 429})
    => /\ Len(latestReqs) = Min(5, Len(city_locations))
       /\ \A i \in 1..Len(latestReqs) : latestReqs[i] = city_locations[i].id
       /\ Len(result.records) = Len(RecordSources(Len(latestReqs)))
       /\ \A k \in 1..Len(result.records) :
            /\ result.records[k].locationId = RecordSources(Len(latestReqs))[k].location.id
            /\ result.records[k].value =
                   Get(RecordSources(Len(latestReqs))[k].reading, "value", 0)
       /\ result.isNone <=> RecordSources(Len(latestReqs)) = <<>>
C5_Witness ==
    /\ pc = "done"
    /\ Len(latestReqs) = 3
    /\ LatestAnswer(1).status = 200 /\ LatestAnswer(1).results # <<>>
    /\ LatestAnswer(2).status = 404
    /\ latestReqs[3] = latestReqs[1]
    /\ ~result.isNone
    /\ Len(result.records) = 4
C5_WitnessNone ==
    /\ pc = "done"
    /\ Len(latestReqs) = 2
    /\ LatestAnswer(1).status = 500
    /\ LatestAnswer(2).status = 404
    /\ result.isNone

\* C6: a timeout or connection failure of any request of the call (the country lookup, a
\* page of locations, a /latest request) ends the call, which returns None.
C6_NetworkFailureIsFatal ==
    (/\ pc = "done"
     /\ \/ last.kind \in {"countries", "locations"} /\ last.exc # ""
        \/ \E i \in 1..Len(latestReqs) : LatestAnswer(i).exc # "")
    => result.isNone

\* C7: an exception raised by a /latest request or while its answer is processed skips
\* that location: unless a 401 or 429 ends the call, every selected location is asked and
\* the records of the other locations are returned.
C7_ExceptionIsSkip ==
    LET raised(i) == \/ LatestAnswer(i).exc # ""
                     \/ /\ LatestAnswer(i).status = 200
                        /\ GoodPrefix(LatestAnswer(i).results) # LatestAnswer(i).results
        raisedIds == {latestReqs[i] : i \in {j \in 1..Len(latestReqs) : raised(j)}}
        other(x) == x.location.id \notin raisedIds
        otherRecord(x) == x.locationId \notin raisedIds
        expected == SelectSeq(RecordSources(Len(latestReqs)), other)
        returned == SelectSeq(result.records, otherRecord)
    IN  (pc = "done" /\ ~SomeFatalAnswer /\ raisedIds # {})
        => /\ Len(latestReqs) = Min(5, Len(city_locations))
           /\ \A i \in 1..Len(latestReqs) : latestReqs[i] = city_locations[i].id
           /\ Len(returned) = Len(expected)
           /\ \A k \in 1..Len(returned) :
                /\ returned[k].locationId = expected[k].location.id
                /\ returned[k].value = Get(expected[k].reading, "value", 0)
           /\ expected # <<>> => ~result.isNone
C7_Witness ==
    /\ pc = "done"
    /\ Len(latestReqs) = 2
    /\ LatestAnswer(1).exc = "Timeout"
    /\ LatestAnswer(2).status = 200 /\ LatestAnswer(2).results = <<Reading2, Reading3>>
    /\ ~result.isNone
    /\ Len(result.records) = 2
C7_WitnessProcessing ==
    /\ pc = "done"
    /\ Len(latestReqs) = 2
    /\ LatestAnswer(1).status = 200
    /\ LatestAnswer(1).results = <<Reading1, Reading9, ReadingBad, Reading2>>
    /\ LatestAnswer(2).status = 200 /\ LatestAnswer(2).results = <<Reading2, Reading3>>
    /\ Len(result.records) = 4

\* C8: the latest loop asks for the first min(5, n) of the n matched locations, in scan
\* order, one request each: what it has asked so far is a prefix of those, and all of
\* them once it completes.
C8_FirstFiveInOrder ==
    /\ Len(latestReqs) <= 5
    /\ Len(latestReqs) <= Len(city_locations)
    /\ \A i \in 1..Len(latestReqs) : latestReqs[i] = city_locations[i].id
    /\ LoopCompleted =>
         Len(latestReqs) = (IF Len(city_locations) < 5 THEN Len(city_locations) ELSE 5)
C8_Witness ==
    /\ LoopCompleted
    /\ Len(city_locations) = 6
    /\ Len(latestReqs) = 5
    /\ city_locations[6].id \notin Range(latestReqs)
C8_WitnessFew ==
    /\ LoopCompleted
    /\ Len(city_locations) = 2
    /\ latestReqs = <<124, 123>>

\* C9: when the country lookup answers another status than 200, or no record of its
\* answer has the requested code, compared without regard to case, the call returns None
\* and issues no /locations and no /latest request.
C9_CountryNotFound ==
    LET r == countries_response
        hasCode(c) == /\ "code" \in DOMAIN c
                      /\ Len(c.code) = Len(country)
                      /\ \A i \in 1..Len(country) :
                            LowerChar(c.code[i]) = LowerChar(country[i])
        lookupFails == \/ r.status # 200
                       \/ ~ \E i \in 1..Len(r.results) : hasCode(r.results[i])
    IN  (last.kind # "" /\ r.exc = "" /\ lookupFails)
        => /\ pc = "done"
           /\ result.isNone
           /\ last.kind = "countries"
           /\ pagesAsked = <<>>
           /\ latestReqs = <<>>
C9_Witness ==
    /\ pc = "done"
    /\ countries_response.status = 200
    /\ countries_response.results = <<CountryAR>>
    /\ result.isNone
    /\ last.kind = "countries"
C9_WitnessStatus ==
    /\ pc = "done"
    /\ countries_response.status = 500
    /\ result.isNone
    /\ last.kind = "countries"
C9_WitnessFound ==
    /\ country = <<"B","R">>
    /\ countries_response.results = <<CountryAR, CountryBRLower>>
    /\ pagesAsked # <<>>

\* C10: when the lookup, the scan and the /latest requests succeed, the call returns one
\* record per reading, in order; for a reading whose sensorsId is the id of a sensor of
\* its location, the record's parameter and unit are the name and units of that sensor's
\* parameter, and its value and UTC timestamp are the reading's.
C10_RecordOfReading ==
    LET sources == RecordSources(Len(latestReqs))
        sensors(x) == Get(x.location, "sensors", <<>>)
        named(sensor) == /\ "parameter" \in DOMAIN sensor
                         /\ {"name", "units"} \subseteq DOMAIN sensor.parameter
                         /\ sensor.parameter.name \notin {None, ""}
    IN  LoopCompleted
        => /\ Len(result.records) = Len(sources)
           /\ \A k \in 1..Len(result.records) :
                \A s \in 1..Len(sensors(sources[k])) :
                    LET sensor == sensors(sources[k])[s]
                        reading == sources[k].reading
                        record == result.records[k]
                    IN  (/\ "sensorsId" \in DOMAIN reading
                         /\ "id" \in DOMAIN sensor
                         /\ sensor.id = reading.sensorsId
                         /\ named(sensor))
                        => /\ record.parameter = sensor.parameter.name
                           /\ record.unit = sensor.parameter.units
                           /\ record.value = reading.value
                           /\ record.date.utc = reading.datetime.utc
C10_Witness ==
    /\ LoopCompleted
    /\ Len(latestReqs) = 1
    /\ city_locations = <<LocSaoPaulo>>
    /\ LatestAnswer(1).results = <<Reading2, Reading3>>
    /\ Len(result.records) = 2
    /\ result.records[1].parameter = "o3"
    /\ result.records[1].unit = "ppm"
    /\ result.records[1].value = 40
    /\ result.records[1].date.utc = "2024-01-01T12:30:00Z"

\* C11: every record of a returned list has a parameter and a unit that are not null,
\* whatever sensors the location carries.
C11_ParameterAndUnitNotNull ==
    (pc = "done" /\ ~result.isNone)
    => \A k \in 1..Len(result.records) :
          /\ result.records[k].parameter # None
          /\ result.records[k].unit # None

----------------------------------------------------------------------------
(* Properties of data_processor.py, checked under SpecProcessor *)

\* the table process_data returned for data
Processed == ppc # "input" /\ data # DataNone

\* C12: the table process_data returns has no two rows with the same datetime, parameter
\* and location.
C12_NoDuplicateKeys ==
    (Processed /\ ~df.isNone)
    => \A i, j \in 1..Len(df.rows) :
          (/\ df.rows[i].datetime = df.rows[j].datetime
           /\ df.rows[i].parameter = df.rows[j].parameter
           /\ df.rows[i].location = df.rows[j].location) => i = j

\* two records of one datetime, parameter and location went in, one row came out
C12_Witness ==
    /\ Processed
    /\ data = DataList(<<RecA10, RecA20, RecA30Later>>)
    /\ ~df.isNone
    /\ Len(df.rows) = 2
    /\ df.rows[1].value = 10

\* C13: the rows of the table process_data returns are in non-decreasing datetime order.
C13_SortedByDatetime ==
    (Processed /\ ~df.isNone)
    => \A i, j \in 1..Len(df.rows) :
          i < j => df.rows[i].datetime <= df.rows[j].datetime

\* the later record came first in the list and is last in the table
C13_Witness ==
    /\ Processed
    /\ data = DataList(<<RecA30Later, RecO3, RecA10>>)
    /\ ~df.isNone
    /\ Len(df.rows) = 3
    /\ df.rows[3].value = 30

\* the timestamp string a record carries, under 'date' or under 'datetime'
TimestampOf(rec) ==
    IF "date" \in DOMAIN rec
    THEN IF IsDict(rec.date) THEN rec.date.utc ELSE rec.date.str
    ELSE rec.datetime

\* the record has a timestamp key and its string is a timestamp
ValidTimestamp(rec) ==
    /\ DOMAIN rec \cap {"date", "datetime"} # {}
    /\ ParseTimestamp(TimestampOf(rec)) >= 0

\* the positions of data whose records have a valid timestamp
ValidPositions == {i \in 1..Len(data.records) : ValidTimestamp(data.records[i])}

\* the records of data have the parameter and value columns
HasRequiredColumns ==
    \A i \in 1..Len(data.records) : {"parameter", "value"} \subseteq DOMAIN data.records[i]

\* row is the table's row of record rec
RowOf(row, rec) ==
    /\ row.datetime = ParseTimestamp(TimestampOf(rec))
    /\ row.parameter = rec.parameter
    /\ row.value = rec.value

\* C14: when some records of the list have a valid timestamp, process_data returns a
\* table, not None: its rows are rows of the records with a valid timestamp, and each such
\* record has its datetime and parameter in the table; the records whose timestamp is
\* empty or malformed are dropped.
C14_ValidRecordsKept ==
    (Processed /\ HasRequiredColumns /\ ValidPositions # {})
    => /\ ~df.isNone
       /\ \A k \in 1..Len(df.rows) : \E i \in ValidPositions : RowOf(df.rows[k], data.records[i])
       /\ \A i \in ValidPositions :
             \E k \in 1..Len(df.rows) :
                /\ df.rows[k].datetime = ParseTimestamp(TimestampOf(data.records[i]))
                /\ df.rows[k].parameter = data.records[i].parameter

\* get_latest_measurements has been applied to a table with rows
LatestTaken == ppc \in {"latest", "pivoted"} /\ ~df.isNone /\ df.rows # <<>>

\* the rows of the table with datetime d and parameter p
RowsAt(d, p) == {k \in 1..Len(df.rows) : df.rows[k].datetime = d /\ df.rows[k].parameter = p}

\* the sum of the values of the rows K of the table
RECURSIVE ValueSum(_)
ValueSum(K) ==
    IF K = {} THEN 0
    ELSE LET k == CHOOSE x \in K : TRUE
         IN  df.rows[k].value + ValueSum(K \ {k})

\* the fraction m is the arithmetic mean of the values of the rows K
IsMeanOf(m, K) == m.den > 0 /\ m.num * Cardinality(K) = m.den * ValueSum(K)

\* C15: get_latest_measurements takes the maximum datetime of the whole table; each
\* parameter with a row at that datetime has an entry whose value is the mean of the
\* values of the rows of that parameter at that datetime, and whose datetime is the maximum.
C15_MeanAtGlobalMaximum ==
    LatestTaken
    => /\ ~measurements.isNone
       /\ \A k \in 1..Len(df.rows) :
             (\A j \in 1..Len(df.rows) : df.rows[j].datetime <= df.rows[k].datetime)
             => LET p == df.rows[k].parameter
                    d == df.rows[k].datetime
                IN  /\ p \in DOMAIN measurements.entries
                    /\ measurements.entries[p].datetime = d
                    /\ IsMeanOf(measurements.entries[p].value, RowsAt(d, p))

\* 10 and 20 of one datetime and two locations give 15
C15_Witness ==
    /\ LatestTaken
    /\ data = DataList(<<RecA10, RecB20>>)
    /\ Len(df.rows) = 2
    /\ measurements.entries["pm25"].value = [num |-> 15, den |-> 1]

\* of two records of different datetimes the later one gives the value
C15_WitnessLater ==
    /\ LatestTaken
    /\ data = DataList(<<RecA30Later, RecA10>>)
    /\ Len(df.rows) = 2
    /\ measurements.entries["pm25"].value = [num |-> 30, den |-> 1]
    /\ measurements.entries["pm25"].datetime = 13

\* C16: the result of get_latest_measurements has one entry for every parameter of the
\* table, computed at the maximum datetime of that parameter's own rows.
C16_EntryForEveryParameter ==
    LatestTaken
    => /\ ~measurements.isNone
       /\ \A k \in 1..Len(df.rows) :
             LET p == df.rows[k].parameter
                 d == df.rows[k].datetime
             IN  (\A j \in 1..Len(df.rows) :
                     df.rows[j].parameter = p => df.rows[j].datetime <= d)
                 => /\ p \in DOMAIN measurements.entries
                    /\ measurements.entries[p].datetime = d
                    /\ IsMeanOf(measurements.entries[p].value, RowsAt(d, p))

\* pivot_data_by_parameter has been applied to the table process_data returned
PivotTaken == ppc = "pivoted" /\ Processed /\ ~df.isNone

\* the instants of the records with a valid timestamp
ValidInstants == {ParseTimestamp(TimestampOf(data.records[i])) : i \in ValidPositions}

\* the positions of the records of instant d and parameter p
RecordsAt(d, p) ==
    {i \in ValidPositions : /\ ParseTimestamp(TimestampOf(data.records[i])) = d
                            /\ data.records[i].parameter = p}

\* the sum of the values of the records at the positions K
RECURSIVE RecordValueSum(_)
RecordValueSum(K) ==
    IF K = {} THEN 0
    ELSE LET k == CHOOSE x \in K : TRUE
         IN  data.records[k].value + RecordValueSum(K \ {k})

\* C17 as stated: the pivot of process_data(records) has one row per distinct valid
\* timestamp of the records, one column per distinct parameter of the records, and each
\* cell is the mean of the values of the records sharing its timestamp and parameter.
C17_PivotOfRecords ==
    PivotTaken
    => /\ ~pivot_df.isNone
       /\ pivot_df.index = ValidInstants
       /\ pivot_df.columns = {data.records[i].parameter : i \in 1..Len(data.records)}
       /\ \A c \in pivot_df.index \X pivot_df.columns :
             LET K == RecordsAt(c[1], c[2])
             IN  K # {} => /\ pivot_df.cells[c].den > 0
                           /\ pivot_df.cells[c].num * Cardinality(K)
                                = pivot_df.cells[c].den * RecordValueSum(K)

\* C17, amended: the pivot of process_data(records) has one row per distinct valid
\* timestamp of the records, one column per distinct parameter of the records with a
\* valid timestamp, and each cell is the mean of the values of the table's rows (the
\* records left after duplicates of a datetime, parameter and location are removed) of
\* its timestamp and parameter, NaN when there is no such row.
C17_PivotOfTable ==
    PivotTaken
    => /\ ~pivot_df.isNone
       /\ pivot_df.index = ValidInstants
       /\ pivot_df.columns = {data.records[i].parameter : i \in ValidPositions}
       /\ DOMAIN pivot_df.cells = pivot_df.index \X pivot_df.columns
       /\ \A c \in pivot_df.index \X pivot_df.columns :
             IF RowsAt(c[1], c[2]) = {}
             THEN pivot_df.cells[c] = NaN
             ELSE IsMeanOf(pivot_df.cells[c], RowsAt(c[1], c[2]))

\* a duplicate of a row and a parameter that only a dropped record has: one cell, the
\* first record's value
C17_Witness ==
    /\ PivotTaken
    /\ data = DataList(<<RecA10, RecA20, RecNo2NoTime>>)
    /\ pivot_df.index = {12}
    /\ pivot_df.columns = {"pm25"}
    /\ pivot_df.cells[<<12, "pm25">>] = [num |-> 10, den |-> 1]

\* a value collision between two locations is averaged, a missing pair is NaN
C17_WitnessMean ==
    /\ PivotTaken
    /\ data = DataList(<<RecA10, RecB20, RecO3Later>>)
    /\ pivot_df.cells[<<12, "pm25">>] = [num |-> 15, den |-> 1]
    /\ pivot_df.cells[<<13, "pm25">>] = NaN

\* C18: process_data returns None for None and for the empty list, when no record has a
\* valid timestamp, and when the records have no parameter or no value column;
\* get_latest_measurements and pivot_data_by_parameter return None for None and for an
\* empty table.
C18_AbsentResults ==
    /\ \A t \in process_data(DataNone) : t.isNone
    /\ (Processed /\ data.records = <<>>) => df.isNone
    /\ (Processed /\ ValidPositions = {}) => df.isNone
    /\ (Processed /\ ~HasRequiredColumns) => df.isNone
    /\ (ppc \in {"latest", "pivoted"} /\ (df.isNone \/ df.rows = <<>>)) => measurements.isNone
    /\ (ppc = "pivoted" /\ (df.isNone \/ df.rows = <<>>)) => pivot_df.isNone

\* the empty list: None from each of the three functions
C18_Witness ==
    /\ ppc = "pivoted"
    /\ data = DataList(<<>>)
    /\ df.isNone /\ measurements.isNone /\ pivot_df.isNone

\* the empty table
C18_WitnessEmptyTable ==
    /\ ppc = "pivoted"
    /\ df = EmptyTable
    /\ measurements.isNone /\ pivot_df.isNone

\* no record with a valid timestamp
C18_WitnessNoTimestamp ==
    /\ Processed
    /\ data = DataList(<<RecNoTime, RecNo2NoTime>>)
    /\ df.isNone

\* no value column
C18_WitnessNoValue ==
    /\ Processed
    /\ data = DataList(<<Shaped(RecA10, "no_value"), Shaped(RecO3Later, "no_value")>>)
    /\ df.isNone

----------------------------------------------------------------------------
(* Properties of the text functions, checked under SpecText *)

\* the eighteen accented characters of lines 114-121
AccentedCharacters ==
    {"ã","á","â","à","é","ê","è","í","î","ì","ó","ô","ò","ú","û","ù","ç","ñ"}

\* the upper-case letters
UpperCaseLetters ==
    {"A","B","C","D","E","F","G","H","I","J","K","L","M","N","O","P","Q","R","S","T","U","V",
     "W","X","Y","Z","Ã","Á","Â","À","É","Ê","È","Í","Î","Ì","Ó","Ô","Ò","Ú","Û","Ù","Ç","Ñ"}

\* C19: normalize_text applied to its own result changes nothing; the result has no
\* accented character of the table and no upper-case letter; the empty string gives the
\* empty string.
C19_NormalizeIdempotent ==
    /\ tpc = "renormalized" => renormalized = normalized
    /\ tpc \in {"normalized", "renormalized"}
       => /\ \A i \in 1..Len(normalized) :
                normalized[i] \notin AccentedCharacters \cup UpperCaseLetters
          /\ raw_text = <<>> => normalized = <<>>

\* an upper-case accented letter and an accented letter, normalised twice
C19_Witness ==
    /\ tpc = "renormalized"
    /\ raw_text = <<"Ã","ñ">>
    /\ normalized = <<"a","n">>
    /\ renormalized = <<"a","n">>

\* the empty string
C19_WitnessEmpty ==
    /\ tpc = "renormalized"
    /\ raw_text = <<>>
    /\ normalized = <<>>

\* the alias groups of the table that list the city c
AliasGroups(c) ==
    {k \in 1..Len(city_variants_map) : Lower(c) \in Range(city_variants_map[k])}

\* the normalized name, locality or provider name of loc contains the string s
Carries(loc, s) ==
    \/ "name" \in DOMAIN loc /\ Contains(s, normalize_text(loc.name))
    \/ "locality" \in DOMAIN loc /\ Contains(s, normalize_text(loc.locality))
    \/ /\ "provider" \in DOMAIN loc
       /\ "name" \in DOMAIN loc.provider
       /\ Contains(s, normalize_text(loc.provider.name))

\* C20: when the requested city is an alias of the table, a scanned location whose
\* normalized name, locality or provider name contains the canonical name of the alias's
\* group is matched.
C20_AliasTolerance ==
    tpc = "scanned"
    => \A k \in AliasGroups(requested) :
          Carries(scanned, city_variants_key(k)) => loc_found

\* 'bh' is requested and the provider's name holds 'belo horizonte'
C20_Witness ==
    /\ tpc = "scanned"
    /\ requested = <<"b","h">>
    /\ scanned = [id |-> 3,
                  provider |-> [name |-> <<"B","E","L","O"," ","H","O","R","I","Z","O","N","T","E">>]]
    /\ loc_found

\* 'SP' is requested and the location is named 'São Paulo'
C20_WitnessAccent ==
    /\ tpc = "scanned"
    /\ requested = <<"S","P">>
    /\ scanned = LocSaoPaulo
    /\ loc_found

\* a location of another city is not matched
C20_WitnessOther ==
    /\ tpc = "scanned"
    /\ requested = <<"p","o","a">>
    /\ scanned = LocCampinas
    /\ ~loc_found

----------------------------------------------------------------------------
(* Further properties of fetch_air_quality_data, checked under Spec *)

\* the call has returned after a scan that matched no location (lines 237-247)
CityUnresolved ==
    /\ pc = "done"
    /\ city_locations = <<>>
    /\ last.kind \in {"locations", "gac_countries", "gac_locations", "gac_latest"}
    /\ ~(last.kind = "locations" /\ last.exc # "")

\* the call has returned after asking every matched location, none of which gave a
\* record or a fatal answer (lines 333-335)
NoDataAvailable ==
    /\ LoopCompleted
    /\ city_locations # <<>>
    /\ all_results = <<>>

\* the result of an unresolved city
C23_UnresolvedIsNone == CityUnresolved => result = ResultNone

\* C23: a city that was resolved but has no live readings does not give the result value
\* of a city that could not be resolved.
C23_Distinguishable == NoDataAvailable => result # ResultNone

\* C24: when at least 5 matches have been accumulated at the end of page p, no page
\* beyond max(p, 3) is requested: the scan is about to request a page p + 1 only if
\* p + 1 <= 3.
C24_EarlyTermination ==
    (pc = "scan" /\ Len(city_locations) >= 5) => page <= 3

\* five matches at the end of page 1: page 2 is requested next
C24_Witness ==
    /\ pc = "scan"
    /\ Len(city_locations) >= 5
    /\ page = 2
    /\ pagesAsked = <<1>>

\* five or more matches at the end of page 3, a full page of a longer directory: the scan
\* is over
C24_WitnessStop ==
    /\ pc = "latest"
    /\ Len(city_locations) >= 5
    /\ last.kind = "locations" /\ last.arg = 3 /\ last.status = 200

\* the number of pages the server reported: ceil(found / 100)
ReportedPages(found) == (found + 99) \div 100

\* C25: when fewer than 5 matches have been accumulated at the end of a page, the scan
\* requests the next page exactly when the page answered 200 with a full page of 100
\* records and its number is below the reported page count and below the 30-page
\* ceiling; otherwise the scan is over.
C25_ScanGoesOn ==
    [][(pc = "scan" /\ Len(city_locations') < 5)
       => ((pc' = "scan" /\ page' = page + 1)
           <=> (/\ last'.exc = ""
                /\ last'.status = 200
                /\ last'.full
                /\ page < ReportedPages(last'.found)
                /\ page < 30))]_vars

\* nothing has matched on the first five pages and page 6 is requested next
C25_Witness ==
    /\ pc = "scan"
    /\ city_locations = <<>>
    /\ page = 6
    /\ pagesAsked = <<1, 2, 3, 4, 5>>
    /\ last.full

\* page 30 was a full page of a longer directory: the scan is over
C25_WitnessCeiling ==
    /\ pc # "scan"
    /\ last.kind = "locations" /\ last.arg = 30 /\ last.status = 200
    /\ last.full /\ last.found = 3100
    /\ Len(city_locations) < 5

\* C26: the match set of the scan is, in page order, exactly the records of the answered
\* pages that carry a variant of the requested city in their normalized name, locality or
\* provider name: none is added, none is left out
C26_MatchSetExact == city_locations = pageMatches

\* two pages were answered; the first gave a record matched by its provider name only and
\* one that does not match, the second a record matched by its name
C26_Witness ==
    /\ pc = "scan"
    /\ page = 3
    /\ city = LocSaoPaulo.name
    /\ city_locations = <<LocPinheiros, LocSaoPaulo>>
    /\ last.full

\* C28: a record takes its parameter and its unit from the sensor of its location that has
\* the reading's sensorsId; when the location has no such sensor the parameter is 'unknown'
\* and the unit the default unit; the record's city is the location's locality, else its
\* name, else the requested city
C28_RecordDefaults ==
    LET sources == RecordSources(Len(latestReqs))
        sensors(x) == IF "sensors" \in DOMAIN x.location THEN x.location.sensors ELSE <<>>
        sensor_id(x) == IF "sensorsId" \in DOMAIN x.reading THEN x.reading.sensorsId ELSE NoneId
        has_sensor(x) ==
            \E s \in 1..Len(sensors(x)) :
                (IF "id" \in DOMAIN sensors(x)[s] THEN sensors(x)[s].id ELSE NoneId) = sensor_id(x)
        city_of(x) == IF Truthy(x.location, "locality") THEN x.location.locality
                      ELSE IF Truthy(x.location, "name") THEN x.location.name
                      ELSE city
    IN  LoopCompleted
        => /\ Len(result.records) = Len(sources)
           /\ \A k \in 1..Len(result.records) :
                /\ ~has_sensor(sources[k])
                   => /\ result.records[k].parameter = "unknown"
                      /\ result.records[k].unit = DefaultUnit
                /\ result.records[k].city = city_of(sources[k])

\* a reading whose sensorsId no sensor of the location has became a record
C28_Witness ==
    /\ LoopCompleted
    /\ city_locations = <<LocSaoPaulo>>
    /\ Len(result.records) >= 2
    /\ result.records[2].parameter = "unknown"
    /\ result.records[2].unit = DefaultUnit
    /\ result.records[2].city = LocSaoPaulo.locality

\* a reading of a location that has neither locality nor name nor sensors became a record
C28_WitnessRequestedCity ==
    /\ LoopCompleted
    /\ \E k \in 1..Len(result.records) :
        /\ result.records[k].locationId = LocCetesb.id
        /\ result.records[k].city = city
        /\ result.records[k].parameter = "unknown"

(* The variants of the requested city, checked under SpecText *)

\* the requested name, normalized, is the key k of the table, holds it or is held by it
MatchesKey(c, k) ==
    LET cn == city_normalized(c)
        key == city_variants_key(k)
    IN  cn = key \/ Contains(key, cn) \/ Contains(cn, key)

\* C27: the variants are the normalized name and the aliases under the keys that the
\* normalized name matches, and nothing else: a name that matches no key is matched under
\* its own normalized name only
C27_VariantSet ==
    tpc = "scanned"
    => /\ city_normalized(requested) \in requested_variants
       /\ \A k \in 1..Len(city_variants_map) :
            LET key == city_variants_key(k)
            IN  (city_normalized(requested) = key \/ Contains(key, city_normalized(requested)))
                => Range(city_variants_map[k]) \subseteq requested_variants
       /\ \A v \in requested_variants :
            \/ v = city_normalized(requested)
            \/ \E k \in 1..Len(city_variants_map) :
                  MatchesKey(requested, k) /\ v \in Range(city_variants_map[k])

----------------------------------------------------------------------------
(* Properties of get_available_cities, checked under SpecCities *)

\* the call has returned a list
ListReturned == pc = "done" /\ ~result.isNone

\* the probes so far that found data
Confirmed == {i \in 1..Len(probed) : has_data(srvLatest[probed[i]])}

\* C21: at most 10 cities are returned and at most 15 probes are issued; every returned
\* city is one whose first location was probed and answered 200 with readings; a further
\* probe is issued only while fewer than 10 cities are confirmed and fewer than 15
\* candidates were probed
C21_ProbeLimits ==
    /\ Len(probed) <= 15
    /\ pc = "gac_probe" => Cardinality(Confirmed) < 10 /\ Len(probed) < 15
    /\ ListReturned
       => /\ Len(result.records) <= 10
          /\ \A k \in 1..Len(result.records) :
                \E e \in 1..Len(gac.cities_to_check) :
                    LET first_id == gac.cities_to_check[e].location_ids[1]
                    IN  /\ gac.cities_to_check[e].name = result.records[k].name
                        /\ \E i \in Confirmed : probed[i] = first_id

\* ten cities were confirmed by ten probes, and cities were left unprobed
C21_Witness ==
    /\ ListReturned
    /\ Len(result.records) = 10
    /\ Len(probed) = 10
    /\ Len(gac.cities_to_check) > 10

\* fifteen probes confirmed fewer than ten cities, and cities were left unprobed
C21_WitnessFifteen ==
    /\ ListReturned
    /\ Len(probed) = 15
    /\ Len(result.records) \in 1..9
    /\ Len(gac.cities_to_check) > 15

\* the index of the first entry of priority_cities the name matches, 0 when there is none
PriorityRank(name) ==
    LET hits == {i \in 1..Len(priority_cities) :
                    MatchesPriority(Lower(name), priority_cities[i])}
    IN  IF hits = {} THEN 0 ELSE CHOOSE i \in hits : \A j \in hits : i <= j

\* a name with its letters in lower case and without their accents
BaseLetters(name) == normalize_text(name)

\* C22: in the returned list the priority cities come before the others, the priority
\* cities in the order of their rank in the priority list, the others in ascending
\* alphabetical order of their names
C22_OrderOfReturnedList ==
    ListReturned
    => \A i, j \in 1..Len(result.records) :
          i < j
          => LET a == result.records[i].name
                 b == result.records[j].name
             IN  /\ PriorityRank(b) # 0 => PriorityRank(a) # 0
                 /\ PriorityRank(b) # 0 => PriorityRank(a) <= PriorityRank(b)
                 /\ PriorityRank(a) = 0 => ~StrLess(BaseLetters(b), BaseLetters(a))

\* C29: the page loop of get_available_cities ends by itself after a number of pages that
\* does not depend on the server's answers.  The loop of lines 413-445 has no ceiling; the
\* model stops it after MaxGacPages pages, and the formula says that the loop has ended by
\* then
C29_PagesBounded == pc = "gac_scan" => gac.page <= MaxGacPages

\* the position in CityRecords of the first location of the city of record k
FirstLocation(k) ==
    CHOOSE i \in 1..Len(CityRecords) :
        /\ Strip(CityOf(CityRecords[i])) = Strip(CityOf(CityRecords[k]))
        /\ \A j \in 1..(i - 1) : Strip(CityOf(CityRecords[j])) # Strip(CityOf(CityRecords[k]))

\* C30: a city of the priority list that is in the directory and whose first location has
\* readings is in the returned list
C30_PriorityCityListed ==
    (ListReturned /\ gac.n_locations = Len(CityRecords))
    => \A k \in 1..Len(CityRecords) :
          LET name == Strip(CityOf(CityRecords[k]))
          IN  (/\ Lower(name) \in Range(priority_cities)
               /\ has_data(srvLatest[CityRecords[FirstLocation(k)].id]))
              => \E r \in 1..Len(result.records) : result.records[r].name = name

====
